---- MODULE Spec2Model ----
(***************************************************************************)
(* Model of telegram_bot.py: the publish pipeline                          *)
(* (run_generate_and_publish), the scheduled firing                        *)
(* (scheduled_job_standalone), the rubric rotation                         *)
(* (get_rubric_for_weekday), the schedule resolver (setup_scheduler) with  *)
(* the schedule commands, reply counting (handle_reply) and the JSON       *)
(* settings / post-log stores.                                             *)
(*                                                                         *)
(* Python values that may be None, an int or a str are modelled as tagged  *)
(* pairs <<tag, n>> so that None, the integer n and the string str(n) stay *)
(* distinct.  Plain text (rubric, destination, tone, error) is a TLA+      *)
(* string, with NoneS standing for Python's None.                          *)
(***************************************************************************)
EXTENDS Integers, Sequences, FiniteSets, TLC

VARIABLES env, settingsFile, postLog, today, delivered, runs, pc, loc, rr,
          defaultSchedule, scheduler, sc, rp,
          store, preview_cache, cb, fired

\* the data directory's condition, the preview cache with the record of the
\* last button press, and the record of the scheduled firings
frontVars == <<store, preview_cache, cb>>

\* the scheduler side of the process and the record of the last reply event
schedVars == <<defaultSchedule, scheduler, sc, rp, frontVars, fired>>

vars == <<env, settingsFile, postLog, today, delivered, runs, pc, loc, rr, schedVars>>

-----------------------------------------------------------------------------
(* Bounds of the model *)

\* number of pipeline runs / scheduled firings explored
MaxRuns == 2

\* last calendar day explored (days are numbered, day 0 is a Monday)
MaxDay == 6

\* longest post log a reply event is handled on
MaxLogLen == 3

\* highest replies_count a reply event still adds to
MaxReplies == 2

\* texts and images generated for previews (/generate and the REGEN buttons)
MaxGenerations == 2

-----------------------------------------------------------------------------
(* Python values *)

None == <<"None", 0>>

IntV(n) == <<"int", n>>

\* the decimal string of the integer n, i.e. str(n)
StrV(n) == <<"str", n>>

\* a non-numeric string such as "@channel"
Name(n) == <<"name", n>>

\* strftime("%Y-%m-%d") of day d
DateStr(d) == <<"date", d>>

\* an ISO date-time string of day d (longer than 10 characters)
DateTimeStr(d) == <<"datetime", d>>

\* the empty string ""
EmptyV == <<"empty", 0>>

NoneS == "<None>"

\* bool(v) for the tagged values: None, 0 and "" are falsy
Truthy(v) == ~(v = None \/ v = IntV(0) \/ v = EmptyV)

\* bool(s) for text: None and "" are falsy
TruthyS(s) == ~(s = NoneS \/ s = "")

\* a or b
OrS(a, b) == IF TruthyS(a) THEN a ELSE b

\* int(v) succeeds on ints and numeric strings, raises ValueError otherwise
CanInt(v) == v[1] \in {"int", "str"}

IntOf(v) == IntV(v[2])

\* str(v) of an int value
StrOf(v) == IF v[1] = "int" THEN StrV(v[2]) ELSE v

\* s.strip() on the texts the model uses
StripS(s) ==
    CASE s = " " -> ""
      [] s = " checklist " -> "checklist"
      [] s = " Rome " -> "Rome"
      [] OTHER -> s

\* s.upper() on the texts the model uses
UpperS(s) ==
    CASE s = "checklist" -> "CHECKLIST"
      [] s = "food" -> "FOOD"
      [] s = "Custom" -> "CUSTOM"
      [] OTHER -> s

\* (v or "")[:10] for a date value: the first ten characters are the date
Prefix10(v) ==
    CASE v = None -> EmptyV
      [] v[1] = "datetime" -> DateStr(v[2])
      [] OTHER -> v

\* datetime.now().weekday(): day 0 is a Monday
WeekdayOf(d) == d % 7

-----------------------------------------------------------------------------
(* Module constants *)

DEFAULT_DESTINATIONS == {"Stambul", "Tbilisi"}

WEEKDAY_RUBRIC_Shifted ==
    <<"ROUTE_1DAY", "FOOD", "FACT_DAY", "WEEKEND", "ROUTE_3DAYS", "CHECKLIST", "TIPS">>

WEEKDAY_RUBRIC ==
    <<"TIPS", "ROUTE_1DAY", "FOOD", "FACT_DAY", "WEEKEND", "ROUTE_3DAYS", "CHECKLIST">>

\* an empty dict {}
EmptyDict == [k \in {} |-> ""]

\* schedule.time and schedule.frequency are parsed character by character,
\* so they are sequences of one-character strings: "09:30" and "daily"
T0930 == <<"0", "9", ":", "3", "0">>

Daily == <<"d", "a", "i", "l", "y">>

\* the keys the pipeline and the scheduler read; content_plan has no default
DEFAULT_SETTINGS ==
    [target_chat_id |-> None,
     rubric |-> "TIPS",
     destination |-> "Stambul",
     tone |-> "FRIENDLY",
     schedule |-> [enabled |-> FALSE, time |-> T0930, frequency |-> Daily],
     crosspost_vk |-> TRUE,
     last_used |-> [nonempty |-> TRUE, rubric |-> NoneS, destination |-> NoneS, date |-> None]]

\* d.get(k) with the value dflt standing for an absent key
Get(d, k, dflt) == IF k \in DOMAIN d THEN d[k] ELSE dflt

\* d[k] = v
SetKey(d, k, v) == (k :> v) @@ d

-----------------------------------------------------------------------------
(* RubricRotator: get_rubric_for_weekday *)

\* the CHECKLIST -> SEASON substitution shared by both branches
ChecklistSwapWholeString(r, last_used, now) ==
    IF r = "CHECKLIST" /\ last_used.nonempty
       /\ last_used.date = DateStr(now)
    THEN "SEASON"
    ELSE r

ChecklistSwap(r, last_used, now) ==
    IF r = "CHECKLIST" /\ last_used.nonempty
       /\ Prefix10(last_used.date) = DateStr(now)
    THEN "SEASON"
    ELSE r

\* the plan's key for the weekday is the string str(weekday % 7)
PlanKey(weekday) == StrV(weekday % 7)

get_rubric_unnormalised(weekday, last_used, content_plan, now) ==
    IF DOMAIN content_plan # {}
       /\ PlanKey(weekday) \in DOMAIN content_plan
       /\ TruthyS(content_plan[PlanKey(weekday)])
    THEN ChecklistSwap(content_plan[PlanKey(weekday)], last_used, now)
    ELSE ChecklistSwap(WEEKDAY_RUBRIC[(weekday % 7) + 1], last_used, now)

get_rubric_for_weekday(weekday, last_used, content_plan, now) ==
    IF DOMAIN content_plan # {}
       /\ PlanKey(weekday) \in DOMAIN content_plan
       /\ TruthyS(content_plan[PlanKey(weekday)])
    THEN ChecklistSwap(UpperS(StripS(content_plan[PlanKey(weekday)])), last_used, now)
    ELSE ChecklistSwap(WEEKDAY_RUBRIC[(weekday % 7) + 1], last_used, now)

-----------------------------------------------------------------------------
(* SettingsStore and PostLog: whole-file JSON read and write *)

\* the module-level DEFAULT_SETTINGS object as it is now: dict(DEFAULT_SETTINGS)
\* and the backfill copy the keys but share the nested schedule dict, which
\* the schedule commands change in place
CurrentDefaults == [DEFAULT_SETTINGS EXCEPT !.schedule = defaultSchedule]

\* for k, v in DEFAULT_SETTINGS.items(): if k not in data: data[k] = v
Backfill(data) == data @@ CurrentDefaults

\* the data directory and its two files, as the file system presents them:
\* "ok"; "unreadable", open() for reading or json.load raises; "unwritable",
\* open() for writing raises; "nodir", the directory is missing and cannot
\* be created
StoreStates == {"ok", "unreadable", "unwritable", "nodir"}

\* DATA_DIR.mkdir(parents=True, exist_ok=True), called by the four store
\* functions before their try block
ensure_data_dir_raises == store = "nodir"

\* the value load_settings returns when ensure_data_dir() did not raise
load_settings ==
    IF ~settingsFile.exists \/ store = "unreadable" THEN CurrentDefaults
    ELSE Backfill(settingsFile.data)

\* the schedule dict of the loaded settings is DEFAULT_SETTINGS["schedule"] itself
ScheduleShared ==
    \/ ~settingsFile.exists
    \/ store = "unreadable"
    \/ "schedule" \notin DOMAIN settingsFile.data

save_settings_skipped(settings) == settingsFile

\* the file save_settings leaves when ensure_data_dir() did not raise
save_settings(settings) ==
    IF store = "unwritable" THEN settingsFile ELSE [exists |-> TRUE, data |-> settings]

load_post_log == IF store = "unreadable" THEN <<>> ELSE postLog

save_post_log(log_entries) == IF store = "unwritable" THEN postLog ELSE log_entries

\* the entry append_log adds; run is a ghost field naming the appending run
LogEntry(chat_id, tg_message_id, rubric, destination, tone, vk_post_id, run) ==
    [chat_id |-> chat_id,
     tg_message_id |-> tg_message_id,
     rubric |-> rubric,
     destination |-> destination,
     tone |-> tone,
     vk_post_id |-> vk_post_id,
     replies_count |-> 0,
     run |-> run]

append_log_front(chat_id, tg_message_id, rubric, destination, tone, vk_post_id, run) ==
    save_post_log(<<LogEntry(chat_id, tg_message_id, rubric, destination, tone,
                             vk_post_id, run)>> \o load_post_log)

append_log(chat_id, tg_message_id, rubric, destination, tone, vk_post_id, run) ==
    save_post_log(Append(load_post_log,
        LogEntry(chat_id, tg_message_id, rubric, destination, tone, vk_post_id, run)))

-----------------------------------------------------------------------------
(* The two callers of the pipeline and their local state *)

Procs == {"manual", "sched"}

ErrNoTarget == "target chat is not set"

ErrNoKey == "OPENAI_API_KEY is not set"

\* str(e) of the OSError that Path.mkdir raises
ErrMkdir == "[Errno 13] Permission denied"

\* str(e) of the exceptions the collaborators raise; Exception() prints as ""
ExcMsgs == {"", "boom"}

\* chat ids of the chats the bot is used in
ChatIds == {100}

\* the post id the secondary platform hands out: a fresh one for every post
VkPostId(p) == loc[p].runId

\* the dict run_generate_and_publish returns; an absent key reads as None
Result(ok, tg_message_id, vk_post_id, error) ==
    [ok |-> ok, tg_message_id |-> tg_message_id, vk_post_id |-> vk_post_id, error |-> error]

\* local variables of one call; attempts, text, image, mirror, notified,
\* logBefore, lastUsedBefore, runId and doneDay are ghosts recording what happened
InitLoc ==
    [settings |-> DEFAULT_SETTINGS,
     chat_id |-> None,
     dest_override |-> NoneS,
     target |-> None,
     dest |-> NoneS,
     rubric |-> NoneS,
     tone |-> NoneS,
     has_image |-> FALSE,
     result |-> Result(FALSE, None, None, NoneS),
     attempts |-> <<>>,
     text |-> "none",
     image |-> "none",
     mirror |-> "none",
     logBefore |-> <<>>,
     lastUsedBefore |-> DEFAULT_SETTINGS.last_used,
     runId |-> 0,
     doneDay |-> 0]

\* Spec explores runs one at a time: a run starts only when no other is in
\* flight (the scheduler keeps one instance of its job, and the runs are
\* taken to be non-reentrant)
Exclusive == \A q \in Procs : pc[q] = "idle"

\* entering run_generate_and_publish(chat_id, settings, destination_override)
Call(p, chat_id, settings, dest_override) ==
    /\ pc' = [pc EXCEPT ![p] = "run_begin"]
    /\ loc' = [loc EXCEPT ![p] =
                 [InitLoc EXCEPT !.settings = settings,
                                 !.chat_id = chat_id,
                                 !.dest_override = dest_override,
                                 !.logBefore = postLog,
                                 !.lastUsedBefore = load_settings.last_used,
                                 !.runId = runs + 1]]

\* return result
Return(p, result) ==
    /\ pc' = [pc EXCEPT ![p] = "returned"]
    /\ loc' = [loc EXCEPT ![p].result = result, ![p].doneDay = today]

\* except Exception as e: result["error"] = str(e)
ExceptResultSilent(result, msg) == result

ExceptResult(result, msg) == [result EXCEPT !.error = msg]

\* the outer handler of run_generate_and_publish
Except(p, msg) == Return(p, ExceptResult(loc[p].result, msg))

-----------------------------------------------------------------------------
(* scheduled_job_standalone, up to the call of the pipeline *)

\* chat_id = settings target, else int(TELEGRAM_CHAT_ID) when that parses
SchedChatId(settings) ==
    IF ~Truthy(settings.target_chat_id) /\ Truthy(env.TELEGRAM_CHAT_ID)
    THEN IF CanInt(env.TELEGRAM_CHAT_ID) THEN IntOf(env.TELEGRAM_CHAT_ID)
         ELSE settings.target_chat_id
    ELSE settings.target_chat_id

\* if rubric == prev_rubric: rubric = "TIPS" if rubric != "TIPS" else "FOOD"
AntiRepeatOff(rubric, prev_rubric) == rubric

AntiRepeat(rubric, prev_rubric) ==
    IF rubric = prev_rubric THEN (IF rubric # "TIPS" THEN "TIPS" ELSE "FOOD") ELSE rubric

\* the rubric the firing writes into settings["rubric"]
SchedRubric(settings) ==
    AntiRepeat(get_rubric_for_weekday(WeekdayOf(today), settings.last_used,
                                      Get(settings, "content_plan", EmptyDict), today),
               settings.last_used.rubric)

\* the job function as the scheduler's worker thread runs it
ScheduledFiring ==
    /\ pc["sched"] = "idle"
    /\ runs < MaxRuns
    /\ runs' = runs + 1
    /\ LET settings == load_settings
           chat_id == SchedChatId(settings)
       IN IF ensure_data_dir_raises
          THEN /\ pc' = [pc EXCEPT !["sched"] = "raised"]
               /\ UNCHANGED <<settingsFile, loc, fired>>
          ELSE IF ~Truthy(chat_id)
          THEN UNCHANGED <<settingsFile, pc, loc, fired>>
          ELSE \E pick \in DEFAULT_DESTINATIONS :
                 LET dest == StripS(OrS(settings.destination, ""))
                     s1 == IF ~TruthyS(dest) THEN SetKey(settings, "destination", pick)
                           ELSE settings
                     s2 == SetKey(s1, "rubric", SchedRubric(settings))
                 IN /\ settingsFile' = save_settings(s2)
                    /\ fired' = [fired EXCEPT !.last = s2.rubric, !.notified = "none"]
                    /\ IF CanInt(chat_id)
                       THEN Call("sched", IntOf(chat_id), s2, NoneS)
                       ELSE /\ pc' = [pc EXCEPT !["sched"] = "raised"]
                            /\ UNCHANGED loc
    /\ UNCHANGED <<env, postLog, today, delivered, rr,
                   defaultSchedule, scheduler, sc, rp, frontVars>>

scheduled_job_standalone == Exclusive /\ ScheduledFiring

\* if not result.get("ok"): the error message is posted to the chat
ShouldNotifyAlways(result) == TRUE

ShouldNotify(result) == ~result.ok

\* requests.post(.../sendMessage) inside try / except Exception: pass; the
\* post goes through or raises, and a raise is swallowed
SchedEnd ==
    /\ pc["sched"] = "returned"
    /\ pc' = [pc EXCEPT !["sched"] = "idle"]
    /\ loc' = [loc EXCEPT !["sched"] = InitLoc]
    /\ IF ShouldNotify(loc["sched"].result)
       THEN \E outcome \in {"sent", "send_raised"} :
               fired' = [fired EXCEPT !.notified = outcome]
       ELSE fired' = [fired EXCEPT !.notified = "none"]
    /\ UNCHANGED <<env, settingsFile, postLog, today, delivered, runs, rr,
                   defaultSchedule, scheduler, sc, rp, frontVars>>

-----------------------------------------------------------------------------
(* cmd_post_now *)

\* the handler of /post_now
PostNow ==
    /\ pc["manual"] = "idle"
    /\ runs < MaxRuns
    /\ runs' = runs + 1
    /\ LET settings == load_settings
           target == settings.target_chat_id
       IN IF ensure_data_dir_raises
          THEN /\ pc' = [pc EXCEPT !["manual"] = "raised"]
               /\ UNCHANGED loc
          ELSE IF ~Truthy(target)
          THEN UNCHANGED <<pc, loc>>
          ELSE IF CanInt(target)
               THEN \E dest_override \in {NoneS, "Rome"} :
                       Call("manual", IntOf(target), settings, dest_override)
               ELSE /\ pc' = [pc EXCEPT !["manual"] = "raised"]
                    /\ UNCHANGED loc
    /\ UNCHANGED <<env, settingsFile, postLog, today, delivered, rr, schedVars>>

cmd_post_now == Exclusive /\ PostNow

ManualEnd ==
    /\ pc["manual"] = "returned"
    /\ pc' = [pc EXCEPT !["manual"] = "idle"]
    /\ loc' = [loc EXCEPT !["manual"] = InitLoc]
    /\ UNCHANGED <<env, settingsFile, postLog, today, delivered, runs, rr, schedVars>>

-----------------------------------------------------------------------------
(* PublishPipeline: run_generate_and_publish *)

\* if not target
NoTargetNever(settings) == FALSE

NoTarget(settings) == ~Truthy(settings.target_chat_id)

\* target / credential checks and the resolution of dest, rubric and tone
RunBegin(p) ==
    /\ pc[p] = "run_begin"
    /\ LET settings == loc[p].settings IN
       IF NoTarget(settings)
       THEN Return(p, Result(FALSE, None, None, ErrNoTarget))
       ELSE IF ~env.OPENAI_API_KEY
       THEN Return(p, Result(FALSE, None, None, ErrNoKey))
       ELSE /\ pc' = [pc EXCEPT ![p] = "gen_text"]
            /\ loc' = [loc EXCEPT
                 ![p].target = settings.target_chat_id,
                 ![p].dest = StripS(OrS(loc[p].dest_override,
                                        OrS(settings.destination, "Stambul"))),
                 ![p].rubric = OrS(settings.rubric, "TIPS"),
                 ![p].tone = OrS(settings.tone, "FRIENDLY"),
                 ![p].result = Result(FALSE, None, None, NoneS)]
    /\ UNCHANGED <<env, settingsFile, postLog, today, delivered, runs, rr, schedVars>>

\* step 1: PostGenerator.generate_travel_post; a raise ends the run
GenText(p) ==
    /\ pc[p] = "gen_text"
    /\ \/ /\ pc' = [pc EXCEPT ![p] = "gen_image"]
          /\ loc' = [loc EXCEPT ![p].text = "ok"]
       \/ \E msg \in ExcMsgs :
             /\ pc' = [pc EXCEPT ![p] = "returned"]
             /\ loc' = [loc EXCEPT ![p].text = "failed",
                                   ![p].result = ExceptResult(loc[p].result, msg),
                                   ![p].doneDay = today]
    /\ UNCHANGED <<env, settingsFile, postLog, today, delivered, runs, rr, schedVars>>

\* where delivery starts: the URL tier with an image, text-only without
FirstTier(has_image) == IF has_image THEN "tier_url" ELSE "tier_text"

\* step 2: ImageGenerator.generate_images; a raise or an empty list leaves no image
GenImage(p) ==
    /\ pc[p] = "gen_image"
    /\ \E o \in {"url", "empty", "raise"} :
          /\ pc' = [pc EXCEPT ![p] = FirstTier(o = "url")]
          /\ loc' = [loc EXCEPT ![p].has_image = (o = "url"),
                                ![p].image = IF o = "url" THEN "ok" ELSE "failed"]
    /\ UNCHANGED <<env, settingsFile, postLog, today, delivered, runs, rr, schedVars>>

\* the ghost record of one delivery attempt
Attempt(tier, sent, mid) == [tier |-> tier, sent |-> sent, mid |-> mid]

\* a delivery call answered without an exception: mid is the message id read
\* from the answer (None when the answer carries none)
Delivered(p, tier, mid) ==
    /\ pc' = [pc EXCEPT ![p] = "append_log"]
    /\ loc' = [loc EXCEPT ![p].result.tg_message_id = mid,
                          ![p].attempts = Append(@, Attempt(tier, TRUE, mid))]

\* a delivery call that raised inside a handler: go on with the next tier
Fallback(p, tier, next) ==
    /\ pc' = [pc EXCEPT ![p] = next]
    /\ loc' = [loc EXCEPT ![p].attempts = Append(@, Attempt(tier, FALSE, None))]

\* except Exception as e1: the attachment tier follows the URL tier
OnUrlFailureSkip == "tier_text"

OnUrlFailure == "tier_attach"

\* except Exception as e2: text-only follows the attachment tier
OnAttachFailure == "tier_text"

\* tier (a): sendPhoto with the image URL
TierUrl(p) ==
    /\ pc[p] = "tier_url"
    /\ \/ /\ Delivered(p, "url", IntV(delivered + 1))
          /\ delivered' = delivered + 1
       \/ /\ Delivered(p, "url", None)
          /\ UNCHANGED delivered
       \/ /\ Fallback(p, "url", OnUrlFailure)
          /\ UNCHANGED delivered
    /\ UNCHANGED <<env, settingsFile, postLog, today, runs, rr, schedVars>>

\* tier (b): download the image and sendPhoto with the bytes
TierAttach(p) ==
    /\ pc[p] = "tier_attach"
    /\ \/ /\ Delivered(p, "attach", IntV(delivered + 1))
          /\ delivered' = delivered + 1
       \/ /\ Delivered(p, "attach", None)
          /\ UNCHANGED delivered
       \/ /\ Fallback(p, "attach", OnAttachFailure)
          /\ UNCHANGED delivered
    /\ UNCHANGED <<env, settingsFile, postLog, today, runs, rr, schedVars>>

\* tier (c) and the no-image path: publisher.publish_post(post_text, image_url=None);
\* a raise reaches the outer handler
TierText(p) ==
    /\ pc[p] = "tier_text"
    /\ \/ /\ Delivered(p, "text", IntV(delivered + 1))
          /\ delivered' = delivered + 1
       \/ /\ Delivered(p, "text", None)
          /\ UNCHANGED delivered
       \/ /\ \E msg \in ExcMsgs :
                /\ pc' = [pc EXCEPT ![p] = "returned"]
                /\ loc' = [loc EXCEPT
                     ![p].attempts = Append(@, Attempt("text", FALSE, None)),
                     ![p].result = ExceptResult(loc[p].result, msg),
                     ![p].doneDay = today]
          /\ UNCHANGED delivered
    /\ UNCHANGED <<env, settingsFile, postLog, today, runs, rr, schedVars>>

\* result["tg_message_id"] or 0
OrZero(v) == IF Truthy(v) THEN v ELSE IntV(0)

\* step 4: append_log(int(target), tg_message_id or 0, rubric, dest, tone, None)
AppendLog(p) ==
    /\ pc[p] = "append_log"
    /\ IF ~CanInt(loc[p].target)
       THEN /\ Except(p, "invalid literal for int()")
            /\ UNCHANGED postLog
       ELSE IF ensure_data_dir_raises
       THEN /\ Except(p, ErrMkdir)
            /\ UNCHANGED postLog
       ELSE /\ postLog' = append_log(IntOf(loc[p].target),
                                     OrZero(loc[p].result.tg_message_id),
                                     loc[p].rubric, loc[p].dest, loc[p].tone,
                                     None, loc[p].runId)
            /\ pc' = [pc EXCEPT ![p] = "crosspost"]
            /\ UNCHANGED loc
    /\ UNCHANGED <<env, settingsFile, today, delivered, runs, rr, schedVars>>

\* log[-1]["vk_post_id"] = vk_post_id
SetFirstVk(log, vk_post_id) == [log EXCEPT ![1].vk_post_id = vk_post_id]

SetLastVk(log, vk_post_id) == [log EXCEPT ![Len(log)].vk_post_id = vk_post_id]

\* except Exception as e: logger.warning("VK crosspost failed")
VkRaisedFatal(p, msg) == Except(p, msg)

VkRaised(p, msg) ==
    /\ pc' = [pc EXCEPT ![p] = "finish"]
    /\ loc' = [loc EXCEPT ![p].mirror = "failed"]

\* step 5: mirror to VK when crosspost_vk and both VK credentials are set
Crosspost(p) ==
    /\ pc[p] = "crosspost"
    /\ IF loc[p].settings.crosspost_vk /\ env.VK
       THEN \/ \E msg \in ExcMsgs :
                  /\ VkRaised(p, msg)
                  /\ UNCHANGED postLog
            \/ /\ pc' = [pc EXCEPT ![p] = "finish"]
               /\ loc' = [loc EXCEPT ![p].mirror = "noid"]
               /\ UNCHANGED postLog
            \/ /\ pc' = [pc EXCEPT ![p] = "finish"]
               /\ loc' = [loc EXCEPT ![p].mirror = "ok",
                                     ![p].result.vk_post_id = StrOf(IntV(VkPostId(p)))]
               /\ postLog' = IF ~ensure_data_dir_raises /\ load_post_log # <<>>
                             THEN save_post_log(SetLastVk(load_post_log,
                                                          StrOf(IntV(VkPostId(p)))))
                             ELSE postLog
       ELSE /\ pc' = [pc EXCEPT ![p] = "finish"]
            /\ UNCHANGED <<loc, postLog>>
    /\ UNCHANGED <<env, settingsFile, today, delivered, runs, rr, schedVars>>

\* settings["last_used"] = {"rubric": rubric, "destination": dest, "date": today}
NewLastUsedStale(rubric, dest, now) ==
    [nonempty |-> TRUE, rubric |-> rubric, destination |-> dest, date |-> DateStr(now - 1)]

NewLastUsed(rubric, dest, now) ==
    [nonempty |-> TRUE, rubric |-> rubric, destination |-> dest, date |-> DateStr(now)]

\* step 6: record last_used, save the settings, result["ok"] = True
Finish(p) ==
    /\ pc[p] = "finish"
    /\ IF ensure_data_dir_raises
       THEN /\ Except(p, ErrMkdir)
            /\ UNCHANGED settingsFile
       ELSE /\ settingsFile' = save_settings(
                   SetKey(loc[p].settings, "last_used",
                          NewLastUsed(loc[p].rubric, loc[p].dest, today)))
            /\ Return(p, [loc[p].result EXCEPT !.ok = TRUE])
    /\ UNCHANGED <<env, postLog, today, delivered, runs, rr, schedVars>>

-----------------------------------------------------------------------------
(* Configuration commands and the clock *)

cmd_set_target ==
    /\ pc["manual"] = "idle"
    /\ ~ensure_data_dir_raises
    /\ \E chat_id \in ChatIds :
          settingsFile' = save_settings(SetKey(load_settings, "target_chat_id", IntV(chat_id)))
    /\ UNCHANGED <<env, postLog, today, delivered, runs, pc, loc, rr, schedVars>>

\* midnight passes
Tick ==
    /\ today < MaxDay
    /\ today' = today + 1
    /\ UNCHANGED <<env, settingsFile, postLog, delivered, runs, pc, loc, rr, schedVars>>

-----------------------------------------------------------------------------
(* Text as characters: the str methods setup_scheduler and the schedule     *)
(* commands use                                                             *)

Digits == {"0", "1", "2", "3", "4", "5", "6", "7", "8", "9"}

DigitVal ==
    ("0" :> 0) @@ ("1" :> 1) @@ ("2" :> 2) @@ ("3" :> 3) @@ ("4" :> 4) @@
    ("5" :> 5) @@ ("6" :> 6) @@ ("7" :> 7) @@ ("8" :> 8) @@ ("9" :> 9)

\* s.replace(a, b) for one-character a and b
ReplaceC(s, a, b) == [i \in 1..Len(s) |-> IF s[i] = a THEN b ELSE s[i]]

\* s.split(sep) for a one-character sep
RECURSIVE SplitC(_, _)
SplitC(s, sep) ==
    IF \A i \in 1..Len(s) : s[i] # sep
    THEN <<s>>
    ELSE LET i == CHOOSE k \in 1..Len(s) :
                      s[k] = sep /\ \A j \in 1..(k - 1) : s[j] # sep
         IN <<SubSeq(s, 1, i - 1)>> \o SplitC(SubSeq(s, i + 1, Len(s)), sep)

\* parts[:2]
FirstTwo(parts) == SubSeq(parts, 1, IF Len(parts) < 2 THEN Len(parts) ELSE 2)

\* int(t) succeeds: the modelled texts hold no sign, blank or underscore
\* inside a number, so int() accepts exactly the non-empty digit strings
CanIntC(t) == Len(t) > 0 /\ \A i \in 1..Len(t) : t[i] \in Digits

RECURSIVE IntOfC(_)
IntOfC(t) ==
    IF t = <<>> THEN 0
    ELSE 10 * IntOfC(SubSeq(t, 1, Len(t) - 1)) + DigitVal[t[Len(t)]]

\* s.strip(): blanks removed at both ends
RECURSIVE StripC(_)
StripC(s) ==
    IF s = <<>> THEN s
    ELSE IF s[1] = " " THEN StripC(Tail(s))
    ELSE IF s[Len(s)] = " " THEN StripC(SubSeq(s, 1, Len(s) - 1))
    ELSE s

\* c.lower() for the upper-case letters that occur in the modelled texts
LowerOfChar(c) ==
    CASE c = "D" -> "d"
      [] c = "F" -> "f"
      [] c = "R" -> "r"
      [] c = "I" -> "i"
      [] c = "M" -> "m"
      [] OTHER -> c

LowerC(s) == [i \in 1..Len(s) |-> LowerOfChar(s[i])]

\* the character class [\s,]
IsSeparator(c) == c \in {" ", ","}

\* re.split(r"[\s,]+", s): a separator at either end leaves an empty part
RECURSIVE ReSplit(_)
ReSplit(s) ==
    IF \A i \in 1..Len(s) : ~IsSeparator(s[i])
    THEN <<s>>
    ELSE LET i == CHOOSE k \in 1..Len(s) :
                      IsSeparator(s[k]) /\ \A j \in 1..(k - 1) : ~IsSeparator(s[j])
             rest == SubSeq(s, i, Len(s))
             n == IF \A k \in 1..Len(rest) : IsSeparator(rest[k])
                  THEN Len(rest)
                  ELSE (CHOOSE k \in 1..Len(rest) :
                            ~IsSeparator(rest[k])
                            /\ \A j \in 1..(k - 1) : IsSeparator(rest[j])) - 1
         IN <<SubSeq(s, 1, i - 1)>> \o ReSplit(SubSeq(rest, n + 1, Len(rest)))

\* re.match(r"^\d{1,2}[:.]\d{2}$", time_str)
TimeRegexMatches(t) ==
    \E h \in 1..2 :
        /\ Len(t) = h + 3
        /\ \A i \in 1..h : t[i] \in Digits
        /\ t[h + 1] \in {":", "."}
        /\ t[h + 2] \in Digits
        /\ t[h + 3] \in Digits

-----------------------------------------------------------------------------
(* ScheduleResolver: setup_scheduler *)

JobId == "travel_post_job"

\* settings.get("schedule") or {}
ScheduleOf(settings) ==
    IF "schedule" \in DOMAIN settings THEN settings.schedule ELSE EmptyDict

\* target = settings target, else int(TELEGRAM_CHAT_ID) when that parses
SchedulerTarget(settings) ==
    IF ~Truthy(settings.target_chat_id) /\ Truthy(env.TELEGRAM_CHAT_ID)
    THEN IF CanInt(env.TELEGRAM_CHAT_ID) THEN IntOf(env.TELEGRAM_CHAT_ID)
         ELSE settings.target_chat_id
    ELSE settings.target_chat_id

\* not schedule.get("enabled") or not target
SchedulingOff(settings) ==
    \/ ~Get(ScheduleOf(settings), "enabled", FALSE)
    \/ ~Truthy(SchedulerTarget(settings))

\* time_str = schedule.get("time") or "09:30"
TimeStr(schedule) ==
    IF Get(schedule, "time", <<>>) = <<>> THEN T0930 ELSE schedule.time

\* h, m = map(int, time_str.replace(".", ":").split(":")[:2]), 9, 30 on any
\* exception: a part that is no number, or fewer than two parts
ParseTime(time_str) ==
    LET parts == FirstTwo(SplitC(ReplaceC(time_str, ".", ":"), ":"))
    IN IF Len(parts) = 2 /\ CanIntC(parts[1]) /\ CanIntC(parts[2])
       THEN <<IntOfC(parts[1]), IntOfC(parts[2])>>
       ELSE <<9, 30>>

\* freq = (schedule.get("frequency") or "daily").strip().lower()
FreqUnlowered(schedule) ==
    StripC(IF Get(schedule, "frequency", <<>>) = <<>> THEN Daily ELSE schedule.frequency)

Freq(schedule) ==
    LowerC(StripC(IF Get(schedule, "frequency", <<>>) = <<>> THEN Daily ELSE schedule.frequency))

day_map ==
    (<<"m", "o", "n">> :> 0) @@ (<<"t", "u", "e">> :> 1) @@ (<<"w", "e", "d">> :> 2) @@
    (<<"t", "h", "u">> :> 3) @@ (<<"f", "r", "i">> :> 4) @@ (<<"s", "a", "t">> :> 5) @@
    (<<"s", "u", "n">> :> 6)

\* for p in parts: if p in day_map and day_map[p] not in days: days.append(..)
RECURSIVE CollectDays(_, _)
CollectDays(parts, days) ==
    IF parts = <<>> THEN days
    ELSE LET p == Head(parts)
         IN CollectDays(Tail(parts),
                        IF p \in DOMAIN day_map
                           /\ \A i \in 1..Len(days) : days[i] # day_map[p]
                        THEN Append(days, day_map[p])
                        ELSE days)

\* days of the non-daily branch, [0, 2, 4] when none was recognised, sorted
DaysOf(freq) ==
    LET days == CollectDays(ReSplit(freq), <<>>)
    IN SortSeq(IF days = <<>> THEN <<0, 2, 4>> ELSE days, LAMBDA a, b : a < b)

\* what a call that compiled no trigger leaves as its trigger
NoTrigger == [every_day |-> FALSE, days |-> <<>>, hour |-> 0 - 1, minute |-> 0 - 1]

\* CronTrigger validates its fields and raises ValueError for an hour
\* outside 0..23 or a minute outside 0..59
CronTriggerRaises(h, m) == ~(h \in 0..23 /\ m \in 0..59)

\* CronTrigger(hour, minute) fires every day, CronTrigger(day_of_week, ..)
\* on the listed days (0 is Monday)
CronTrigger(freq, h, m) ==
    IF freq = Daily
    THEN [every_day |-> TRUE, days |-> <<>>, hour |-> h, minute |-> m]
    ELSE [every_day |-> FALSE, days |-> DaysOf(freq), hour |-> h, minute |-> m]

\* _scheduler.remove_job(id); a missing job raises, which is swallowed
remove_job_kept(jobs, id) == jobs

remove_job(jobs, id) == SelectSeq(jobs, LAMBDA j : j.id # id)

\* _scheduler.add_job(func, trigger, id=id) raises ConflictingIdError when
\* the running scheduler already holds a job with that id
AddJobRaises(jobs, id) == \E i \in 1..Len(jobs) : jobs[i].id = id

add_job_without_id(jobs, trigger, id) == Append(jobs, [id |-> "generated", trigger |-> trigger])

add_job(jobs, trigger, id) == Append(jobs, [id |-> id, trigger |-> trigger])

\* one call of setup_scheduler that loaded `settings`, on the scheduler
\* object sch: the scheduler afterwards and what the call did
setup_scheduler(settings, sch) ==
    IF SchedulingOff(settings)
    THEN [scheduler |-> [sch EXCEPT !.jobs = IF sch.created
                                             THEN remove_job(sch.jobs, JobId)
                                             ELSE sch.jobs],
          sc |-> [outcome |-> "disabled", settings |-> settings, trigger |-> NoTrigger]]
    ELSE LET hm == ParseTime(TimeStr(ScheduleOf(settings)))
             freq == Freq(ScheduleOf(settings))
             cleared == remove_job(sch.jobs, JobId)
         IN IF CronTriggerRaises(hm[1], hm[2]) \/ AddJobRaises(cleared, JobId)
            THEN [scheduler |-> IF CronTriggerRaises(hm[1], hm[2])
                                THEN sch
                                ELSE [created |-> TRUE, jobs |-> cleared],
                  sc |-> [outcome |-> "raised", settings |-> settings, trigger |-> NoTrigger]]
            ELSE [scheduler |-> [created |-> TRUE,
                                 jobs |-> add_job(cleared, CronTrigger(freq, hm[1], hm[2]), JobId)],
                  sc |-> [outcome |-> "installed", settings |-> settings,
                          trigger |-> CronTrigger(freq, hm[1], hm[2])]]

-----------------------------------------------------------------------------
(* The system: the bot process with its manual and scheduled callers *)

\* the first calendar day explored (a Saturday)
FirstDay == 5

\* weekly content plans the web front end may have stored (keys are "0".."6")
PlanSunday == (StrV(6) :> " checklist ")

PlanFood == [k \in {StrV(i) : i \in 0..6} |-> "food"]

\* a plan whose Saturday entry was left blank
PlanBlankSaturday == (StrV(5) :> " ")

\* persisted settings files, some lacking keys (the web front end and older
\* versions write them too); a fresh install has no file
InitFiles ==
    {[exists |-> FALSE, data |-> EmptyDict],
     [exists |-> TRUE, data |-> ("target_chat_id" :> None)],
     [exists |-> TRUE, data |-> ("target_chat_id" :> IntV(100)) @@ ("tone" :> "EXPERT")],
     [exists |-> TRUE, data |-> ("target_chat_id" :> IntV(100)) @@ ("destination" :> "")
                                @@ ("content_plan" :> PlanSunday)],
     [exists |-> TRUE, data |-> ("target_chat_id" :> IntV(100)) @@ ("destination" :> " Rome ")
                                @@ ("tone" :> NoneS) @@ ("content_plan" :> PlanFood)],
     [exists |-> TRUE, data |-> ("target_chat_id" :> IntV(100))
                                @@ ("content_plan" :> PlanBlankSaturday)]}

\* the process environment (.env); the VK credentials matter only to a run
\* that has the OpenAI key, a non-numeric TELEGRAM_CHAT_ID is never used
Envs ==
    {e \in [OPENAI_API_KEY : BOOLEAN,
            TELEGRAM_CHAT_ID : {None, StrV(200), Name(1)},
            VK : BOOLEAN] :
        /\ ~e.OPENAI_API_KEY => ~e.VK
        /\ e.TELEGRAM_CHAT_ID = Name(1) => (e.OPENAI_API_KEY /\ ~e.VK)}

\* no scheduler object yet (_scheduler = None), setup_scheduler not called
SchedulerIdle == [created |-> FALSE, jobs |-> <<>>]

ScIdle == [outcome |-> "none", settings |-> DEFAULT_SETTINGS, trigger |-> NoTrigger]

\* no reply event handled yet
NoEvent == [has_reply_to |-> FALSE, chat_id |-> None, message_id |-> None, from_user |-> "none"]

RpIdle == [handled |-> FALSE, event |-> NoEvent]

\* no preview generated, no button pressed
CbIdle == [message |-> "none", generated |-> 0, pressed |-> "none", outcome |-> "none"]

\* no scheduled firing has selected a rubric or sent a notification
FiredIdle == [last |-> NoneS, notified |-> "none"]

SchedIdle ==
    /\ defaultSchedule = DEFAULT_SETTINGS.schedule
    /\ scheduler = SchedulerIdle
    /\ sc = ScIdle
    /\ rp = RpIdle
    /\ store = "ok"
    /\ preview_cache = EmptyDict
    /\ cb = CbIdle
    /\ fired = FiredIdle

\* the rotator's inputs and result when it is exercised on its own
RubricIdle ==
    [weekday |-> 0, last_used |-> DEFAULT_SETTINGS.last_used,
     content_plan |-> EmptyDict, result |-> NoneS, done |-> FALSE]

Init ==
    /\ env \in Envs
    /\ settingsFile \in InitFiles
    /\ postLog = <<>>
    /\ today = FirstDay
    /\ delivered = 0
    /\ runs = 0
    /\ pc = [p \in Procs |-> "idle"]
    /\ loc = [p \in Procs |-> InitLoc]
    /\ rr = RubricIdle
    /\ SchedIdle

Next ==
    \/ scheduled_job_standalone
    \/ SchedEnd
    \/ cmd_post_now
    \/ ManualEnd
    \/ \E p \in Procs : RunBegin(p)
    \/ \E p \in Procs : GenText(p)
    \/ \E p \in Procs : GenImage(p)
    \/ \E p \in Procs : TierUrl(p)
    \/ \E p \in Procs : TierAttach(p)
    \/ \E p \in Procs : TierText(p)
    \/ \E p \in Procs : AppendLog(p)
    \/ \E p \in Procs : Crosspost(p)
    \/ \E p \in Procs : Finish(p)
    \/ cmd_set_target
    \/ Tick

\* The bot with a readable and writable store, channel ids as cmd_set_target
\* stores them (integers) and pipeline runs that do not overlap.
Spec == Init /\ [][Next]_vars

-----------------------------------------------------------------------------
(* The rotator on its own: every weekday, last-used record and content plan *)

RubricLastUseds ==
    {[nonempty |-> FALSE, rubric |-> NoneS, destination |-> NoneS, date |-> None]} \cup
    [nonempty : {TRUE}, rubric : {NoneS, "CHECKLIST"}, destination : {NoneS},
     date : {None, DateStr(FirstDay), DateStr(FirstDay + 1), DateTimeStr(FirstDay + 1)}]

RubricPlans ==
    {EmptyDict, PlanSunday, PlanFood,
     (StrV(6) :> "CHECKLIST"), (StrV(6) :> ""), (StrV(2) :> " "),
     [k \in {StrV(i) : i \in 0..6} |-> "Custom"]}

InitRubric ==
    /\ env = [OPENAI_API_KEY |-> TRUE, TELEGRAM_CHAT_ID |-> None, VK |-> FALSE]
    /\ settingsFile = [exists |-> FALSE, data |-> EmptyDict]
    /\ postLog = <<>>
    /\ today \in {FirstDay, FirstDay + 1}
    /\ delivered = 0
    /\ runs = 0
    /\ pc = [p \in Procs |-> "idle"]
    /\ loc = [p \in Procs |-> InitLoc]
    /\ rr \in [weekday : 0..6, last_used : RubricLastUseds,
               content_plan : RubricPlans, result : {NoneS}, done : {FALSE}]
    /\ SchedIdle

Resolve ==
    /\ ~rr.done
    /\ rr' = [rr EXCEPT !.result = get_rubric_for_weekday(rr.weekday, rr.last_used,
                                                          rr.content_plan, today),
                        !.done = TRUE]
    /\ UNCHANGED <<env, settingsFile, postLog, today, delivered, runs, pc, loc, schedVars>>

NextRubric == Resolve

SpecRubric == InitRubric /\ [][NextRubric]_vars

-----------------------------------------------------------------------------
(* The scheduler on its own: start-up, the schedule commands and the       *)
(* settings file as other writers leave it                                 *)

\* main(): setup_scheduler() once, before any command is handled
Startup ==
    /\ sc.outcome = "none"
    /\ LET res == setup_scheduler(load_settings, scheduler)
       IN /\ scheduler' = res.scheduler
          /\ sc' = res.sc
    /\ UNCHANGED <<env, settingsFile, postLog, today, delivered, runs, pc, loc, rr,
                   defaultSchedule, rp, frontVars, fired>>

\* what load_settings returns from the file `file` when the shared default
\* schedule is `shared`
LoadFrom(file, shared) ==
    IF ~file.exists \/ store = "unreadable"
    THEN [DEFAULT_SETTINGS EXCEPT !.schedule = shared]
    ELSE file.data @@ [DEFAULT_SETTINGS EXCEPT !.schedule = shared]

\* the tail shared by /set_schedule and /set_frequency: the changed dict
\* sched is stored under "schedule", saved, and setup_scheduler loads the
\* settings again; sched is DEFAULT_SETTINGS["schedule"] when shared
StoreScheduleAndSetup(sched) ==
    LET saved == SetKey(load_settings, "schedule", sched)
        res == setup_scheduler(
                   LoadFrom(save_settings(saved),
                            IF ScheduleShared THEN sched ELSE defaultSchedule),
                   scheduler)
    IN /\ defaultSchedule' = IF ScheduleShared THEN sched ELSE defaultSchedule
       /\ settingsFile' = save_settings(saved)
       /\ scheduler' = res.scheduler
       /\ sc' = res.sc

\* /set_schedule <arg>: args[0] holds no blank, so strip() leaves it as is
cmd_set_schedule(arg) ==
    /\ sc.outcome # "none"
    /\ IF ~TimeRegexMatches(arg)
       THEN UNCHANGED <<settingsFile, defaultSchedule, scheduler, sc>>
       ELSE StoreScheduleAndSetup(
                SetKey(SetKey(ScheduleOf(load_settings), "time", ReplaceC(arg, ".", ":")),
                       "enabled", TRUE))
    /\ UNCHANGED <<env, postLog, today, delivered, runs, pc, loc, rr, rp, frontVars, fired>>

\* /set_frequency <arg>
cmd_set_frequency(arg) ==
    /\ sc.outcome # "none"
    /\ StoreScheduleAndSetup(
           SetKey(SetKey(ScheduleOf(load_settings), "frequency", LowerC(StripC(arg))),
                  "enabled", TRUE))
    /\ UNCHANGED <<env, postLog, today, delivered, runs, pc, loc, rr, rp, frontVars, fired>>

\* texts of the modelled inputs
T_9_5 == <<"9", ":", "5">>

T_25_99 == <<"2", "5", ":", "9", "9">>

T_7dot45 == <<"7", ".", "4", "5">>

T_10_00 == <<"1", "0", ":", "0", "0">>

T_ab == <<"a", "b">>

T_9 == <<"9">>

F_DailyPadded == <<" ", "D", "a", "i", "l", "y", " ">>

F_mon_FRI == <<"m", "o", "n", ",", " ", "F", "R", "I">>

F_xx_yy == <<"x", "x", ",", "y", "y">>

F_sun_sat_sun == <<"s", "u", "n", " ", "s", "a", "t", " ", "s", "u", "n">>

F_blank == <<" ">>

F_comma_mon == <<",", "m", "o", "n">>

F_Daily == <<"D", "a", "i", "l", "y">>

F_mon_comma_FRI == <<"m", "o", "n", ",", "F", "R", "I">>

ScheduleArgs == {T_10_00, T_7dot45, T_25_99, T_9_5}

FrequencyArgs == {F_Daily, F_mon_comma_FRI, F_xx_yy, F_comma_mon}

\* a settings file with the given target and schedule
FileWith(target, schedule) ==
    [exists |-> TRUE, data |-> ("target_chat_id" :> target) @@ ("schedule" :> schedule)]

\* files written by the bot's own /set_target on an older version or by
\* other writers of bot_settings.json: without a schedule, or with a
\* schedule the bot's own commands would not have produced
FileNoSchedule == [exists |-> TRUE, data |-> ("target_chat_id" :> IntV(100))]

FileNoTarget ==
    FileWith(None, [enabled |-> TRUE, time |-> T_7dot45, frequency |-> F_DailyPadded])

SchedFiles ==
    {[exists |-> FALSE, data |-> EmptyDict],
     FileNoSchedule,
     FileNoTarget,
     FileWith(IntV(100), [enabled |-> TRUE, time |-> T_9_5, frequency |-> F_mon_FRI]),
     FileWith(IntV(100), [enabled |-> TRUE, time |-> T_25_99, frequency |-> F_xx_yy]),
     FileWith(IntV(100), [enabled |-> TRUE, time |-> <<>>, frequency |-> <<>>]),
     FileWith(IntV(100), [enabled |-> TRUE, time |-> T_ab, frequency |-> F_sun_sat_sun]),
     FileWith(IntV(100), [enabled |-> TRUE, time |-> T_9, frequency |-> F_blank]),
     FileWith(IntV(100), [enabled |-> FALSE, time |-> T0930, frequency |-> Daily]),
     FileWith(IntV(100), ("enabled" :> TRUE))}

\* bot_settings.json is replaced from outside the process
ExternalEdit ==
    /\ sc.outcome # "none"
    /\ settingsFile' \in {FileNoSchedule, FileNoTarget}
    /\ settingsFile' # settingsFile
    /\ UNCHANGED <<env, postLog, today, delivered, runs, pc, loc, rr, schedVars>>

InitSched ==
    /\ env \in [OPENAI_API_KEY : {TRUE}, TELEGRAM_CHAT_ID : {None, StrV(200), Name(1)},
                VK : {FALSE}]
    /\ settingsFile \in SchedFiles
    /\ postLog = <<>>
    /\ today = FirstDay
    /\ delivered = 0
    /\ runs = 0
    /\ pc = [p \in Procs |-> "idle"]
    /\ loc = [p \in Procs |-> InitLoc]
    /\ rr = RubricIdle
    /\ SchedIdle

NextSched ==
    \/ Startup
    \/ \E arg \in ScheduleArgs : cmd_set_schedule(arg)
    \/ \E arg \in FrequencyArgs : cmd_set_frequency(arg)
    \/ cmd_set_target
    \/ ExternalEdit

SpecSched == InitSched /\ [][NextSched]_vars

-----------------------------------------------------------------------------
(* The defaults over the life of the process: the schedule commands, with  *)
(* bot_settings.json removed or unreadable at times                        *)

\* bot_settings.json is deleted from outside the process
RemoveFile ==
    /\ sc.outcome # "none"
    /\ settingsFile.exists
    /\ settingsFile' = [exists |-> FALSE, data |-> EmptyDict]
    /\ UNCHANGED <<env, postLog, today, delivered, runs, pc, loc, rr, schedVars>>

\* bot_settings.json stops being readable (open() or json.load raises), or
\* is readable again
ReadFault ==
    /\ sc.outcome # "none"
    /\ store \in {"ok", "unreadable"}
    /\ store' = IF store = "ok" THEN "unreadable" ELSE "ok"
    /\ UNCHANGED <<env, settingsFile, postLog, today, delivered, runs, pc, loc, rr,
                   defaultSchedule, scheduler, sc, rp, preview_cache, cb, fired>>

InitDefaults ==
    /\ env = [OPENAI_API_KEY |-> TRUE, TELEGRAM_CHAT_ID |-> None, VK |-> FALSE]
    /\ settingsFile \in {[exists |-> FALSE, data |-> EmptyDict],
                         FileWith(IntV(100),
                                  [enabled |-> TRUE, time |-> T_9_5, frequency |-> F_mon_FRI])}
    /\ postLog = <<>>
    /\ today = FirstDay
    /\ delivered = 0
    /\ runs = 0
    /\ pc = [p \in Procs |-> "idle"]
    /\ loc = [p \in Procs |-> InitLoc]
    /\ rr = RubricIdle
    /\ SchedIdle

NextDefaults ==
    \/ Startup
    \/ \E arg \in ScheduleArgs : cmd_set_schedule(arg)
    \/ \E arg \in FrequencyArgs : cmd_set_frequency(arg)
    \/ cmd_set_target
    \/ RemoveFile
    \/ ReadFault

SpecDefaults == InitDefaults /\ [][NextDefaults]_vars

-----------------------------------------------------------------------------
(* Reply counting: handle_reply and increment_replies_for_message *)

\* entry.get("chat_id") == chat_id and entry.get("tg_message_id") == tg_message_id
EntryMatches(entry, chat_id, tg_message_id) ==
    entry.chat_id = chat_id /\ entry.tg_message_id = tg_message_id

\* for entry in reversed(log): the index of the first match, 0 for none
RECURSIVE ScanReversed(_, _, _, _)
ScanReversed(log, i, chat_id, tg_message_id) ==
    IF i = 0 THEN 0
    ELSE IF EntryMatches(log[i], chat_id, tg_message_id) THEN i
    ELSE ScanReversed(log, i - 1, chat_id, tg_message_id)

RECURSIVE ScanForward(_, _, _, _)
ScanForward(log, i, chat_id, tg_message_id) ==
    IF i > Len(log) THEN 0
    ELSE IF EntryMatches(log[i], chat_id, tg_message_id) THEN i
    ELSE ScanForward(log, i + 1, chat_id, tg_message_id)

\* the log increment_replies_for_message saves; without a match nothing is
\* saved and the stored log stays
increment_replies_forward(chat_id, tg_message_id) ==
    LET i == ScanForward(load_post_log, 1, chat_id, tg_message_id)
    IN IF i = 0 THEN postLog
       ELSE save_post_log([load_post_log EXCEPT ![i].replies_count = @ + 1])

increment_replies_for_message(chat_id, tg_message_id) ==
    LET i == ScanReversed(load_post_log, Len(load_post_log), chat_id, tg_message_id)
    IN IF i = 0 THEN postLog
       ELSE save_post_log([load_post_log EXCEPT ![i].replies_count = @ + 1])

\* reply_to.from_user and reply_to.from_user.is_bot
\*   and reply_to.from_user.id != context.bot.id
FromOtherBot(event) == event.from_user = "other_bot"

\* a message update: a plain message, or a reply to a message of the chat
\* sent by nobody (a channel post), a person, this bot or another bot
ReplyEvents ==
    {NoEvent} \cup
    {e \in [has_reply_to : {TRUE}, chat_id : {None, IntV(100), IntV(200)},
            message_id : {None, IntV(1), IntV(2), IntV(3)},
            from_user : {"none", "user", "self_bot", "other_bot"}] :
        (e.chat_id = None \/ e.message_id = None)
            => (e.from_user = "none" /\ (e.chat_id = None <=> e.message_id # None))}

handle_reply(event) ==
    /\ \A i \in 1..Len(postLog) : postLog[i].replies_count < MaxReplies
    /\ IF ~event.has_reply_to \/ event.chat_id = None \/ event.message_id = None
          \/ FromOtherBot(event)
       THEN /\ rp' = [handled |-> TRUE, event |-> event]
            /\ UNCHANGED postLog
       ELSE IF ensure_data_dir_raises
       THEN /\ rp' = [handled |-> FALSE, event |-> event]
            /\ UNCHANGED postLog
       ELSE /\ rp' = [handled |-> TRUE, event |-> event]
            /\ postLog' = increment_replies_for_message(event.chat_id, event.message_id)
    /\ UNCHANGED <<env, settingsFile, today, delivered, runs, pc, loc, rr,
                   defaultSchedule, scheduler, sc, frontVars, fired>>

\* (chat_id, tg_message_id) of the logged posts: two channels; 0 is the id
\* append_log receives when the delivery returned none
LoggedPosts ==
    {<<IntV(100), IntV(1)>>, <<IntV(100), IntV(2)>>, <<IntV(200), IntV(1)>>,
     <<IntV(100), IntV(0)>>}

\* post logs as append_log writes them, the i-th entry appended by run i
ReplyLogs ==
    UNION {{[i \in 1..n |-> LogEntry(posts[i][1], posts[i][2], "TIPS", "Stambul",
                                      "FRIENDLY", None, i)] :
                posts \in [1..n -> LoggedPosts]} : n \in 0..MaxLogLen}

InitReplies ==
    /\ env = [OPENAI_API_KEY |-> TRUE, TELEGRAM_CHAT_ID |-> None, VK |-> FALSE]
    /\ settingsFile = [exists |-> FALSE, data |-> EmptyDict]
    /\ postLog \in ReplyLogs
    /\ today = FirstDay
    /\ delivered = 0
    /\ runs = 0
    /\ pc = [p \in Procs |-> "idle"]
    /\ loc = [p \in Procs |-> InitLoc]
    /\ rr = RubricIdle
    /\ SchedIdle

NextReplies == \E event \in ReplyEvents : handle_reply(event)

SpecReplies == InitReplies /\ [][NextReplies]_vars

-----------------------------------------------------------------------------
(* The log under runs and reply events: pipeline runs, one at a time, with *)
(* replies to the published posts arriving at any moment                   *)

\* replies to the first published post, from a person and from another bot
LogEvents ==
    {e \in ReplyEvents :
        /\ e.chat_id = IntV(100)
        /\ e.message_id = IntV(1)
        /\ e.from_user \in {"user", "other_bot"}}

InitLog ==
    /\ env = [OPENAI_API_KEY |-> TRUE, TELEGRAM_CHAT_ID |-> None, VK |-> TRUE]
    /\ settingsFile \in {[exists |-> FALSE, data |-> EmptyDict],
                         [exists |-> TRUE, data |-> ("target_chat_id" :> IntV(100))]}
    /\ postLog = <<>>
    /\ today = FirstDay
    /\ delivered = 0
    /\ runs = 0
    /\ pc = [p \in Procs |-> "idle"]
    /\ loc = [p \in Procs |-> InitLoc]
    /\ rr = RubricIdle
    /\ SchedIdle

NextLog ==
    \/ Next
    \/ \E event \in LogEvents : handle_reply(event)

SpecLog == InitLog /\ [][NextLog]_vars

-----------------------------------------------------------------------------
(* Overlapping runs: the scheduler runs its job on a worker thread, so a   *)
(* firing and a /post_now run may be in flight together; every store       *)
(* operation is taken as one step                                          *)

InitOverlap ==
    /\ env = [OPENAI_API_KEY |-> TRUE, TELEGRAM_CHAT_ID |-> None, VK |-> TRUE]
    /\ settingsFile \in {[exists |-> TRUE, data |-> ("target_chat_id" :> IntV(100))],
                         [exists |-> TRUE, data |-> ("target_chat_id" :> IntV(100))
                                                    @@ ("tone" :> "EXPERT")]}
    /\ postLog = <<>>
    /\ today = FirstDay
    /\ delivered = 0
    /\ runs = 0
    /\ pc = [p \in Procs |-> "idle"]
    /\ loc = [p \in Procs |-> InitLoc]
    /\ rr = RubricIdle
    /\ SchedIdle

NextOverlap ==
    \/ ScheduledFiring
    \/ SchedEnd
    \/ PostNow
    \/ ManualEnd
    \/ \E p \in Procs : RunBegin(p)
    \/ \E p \in Procs : GenText(p)
    \/ \E p \in Procs : GenImage(p)
    \/ \E p \in Procs : TierUrl(p)
    \/ \E p \in Procs : TierAttach(p)
    \/ \E p \in Procs : TierText(p)
    \/ \E p \in Procs : AppendLog(p)
    \/ \E p \in Procs : Crosspost(p)
    \/ \E p \in Procs : Finish(p)

SpecOverlap == InitOverlap /\ [][NextOverlap]_vars

-----------------------------------------------------------------------------
(* The pipeline entered directly, with the target as the settings hold it: *)
(* an integer, a numeric string or a channel name such as "@channel"       *)

\* run_generate_and_publish(chat_id, settings, destination_override) called
\* with the loaded settings; the chat_id argument is not read by the run
run_generate_and_publish ==
    /\ pc["manual"] = "idle"
    /\ runs < MaxRuns
    /\ runs' = runs + 1
    /\ \E dest_override \in {NoneS, "Rome"} :
          Call("manual", IntV(100), load_settings, dest_override)
    /\ UNCHANGED <<env, settingsFile, postLog, today, delivered, rr, schedVars>>

TargetFiles ==
    {[exists |-> TRUE, data |-> ("target_chat_id" :> target)] :
        target \in {None, IntV(100), StrV(300), Name(1)}}

InitTargets ==
    /\ env \in [OPENAI_API_KEY : {TRUE}, TELEGRAM_CHAT_ID : {None}, VK : BOOLEAN]
    /\ settingsFile \in TargetFiles
    /\ postLog = <<>>
    /\ today = FirstDay
    /\ delivered = 0
    /\ runs = 0
    /\ pc = [p \in Procs |-> "idle"]
    /\ loc = [p \in Procs |-> InitLoc]
    /\ rr = RubricIdle
    /\ SchedIdle

NextTargets ==
    \/ run_generate_and_publish
    \/ ManualEnd
    \/ RunBegin("manual")
    \/ GenText("manual")
    \/ GenImage("manual")
    \/ TierUrl("manual")
    \/ TierAttach("manual")
    \/ TierText("manual")
    \/ AppendLog("manual")
    \/ Crosspost("manual")
    \/ Finish("manual")

SpecTargets == InitTargets /\ [][NextTargets]_vars

-----------------------------------------------------------------------------
(* A failing store: the data directory and its files become unreadable,    *)
(* unwritable or unreachable, and recover, at any moment, under scheduled  *)
(* firings and reply events                                                *)

StoreFault ==
    /\ store' \in StoreStates
    /\ store' # store
    /\ store = "ok" \/ store' = "ok"
    /\ UNCHANGED <<env, settingsFile, postLog, today, delivered, runs, pc, loc, rr,
                   defaultSchedule, scheduler, sc, rp, preview_cache, cb, fired>>

InitFaults ==
    /\ env = [OPENAI_API_KEY |-> TRUE, TELEGRAM_CHAT_ID |-> None, VK |-> TRUE]
    /\ settingsFile = [exists |-> TRUE, data |-> ("target_chat_id" :> IntV(100))]
    /\ postLog = <<>>
    /\ today = FirstDay
    /\ delivered = 0
    /\ runs = 0
    /\ pc = [p \in Procs |-> "idle"]
    /\ loc = [p \in Procs |-> InitLoc]
    /\ rr = RubricIdle
    /\ SchedIdle

NextFaults ==
    \/ scheduled_job_standalone
    \/ SchedEnd
    \/ RunBegin("sched")
    \/ GenText("sched")
    \/ GenImage("sched")
    \/ TierUrl("sched")
    \/ TierAttach("sched")
    \/ TierText("sched")
    \/ AppendLog("sched")
    \/ Crosspost("sched")
    \/ Finish("sched")
    \/ \E event \in LogEvents : handle_reply(event)
    \/ StoreFault

SpecFaults == InitFaults /\ [][NextFaults]_vars

-----------------------------------------------------------------------------
(* Previews: /generate, the buttons under the preview and the settings     *)
(* changing in between                                                     *)

\* the chat the previews are requested in
PreviewChat == 100

\* what a generator call returns: a new text or image every time, named by
\* who asked for it and a serial number
Generated(by, n) == <<by, n>>

NoImage == <<"none", 0>>

\* preview_cache.get(chat_id)
Cached == IF PreviewChat \in DOMAIN preview_cache THEN preview_cache[PreviewChat] ELSE EmptyDict

\* the preview message in the chat, which carries the buttons: a photo with
\* the text as caption, "photo_short" when the caption leaves room for a
\* note below the 1024 characters Telegram allows and "photo_full" when it
\* does not, or a plain text message, which has no caption
PhotoKinds == {"photo_short", "photo_full"}

\* await query.edit_message_caption(caption=(query.message.caption or "") + note):
\* Telegram edits the caption of a photo when the result fits and answers
\* Bad Request otherwise, which the library raises
EditCaption(message) == IF message = "photo_short" THEN "edited" ELSE "raised"

\* /generate [destination]
cmd_generate ==
    /\ pc["manual"] = "idle"
    /\ ~ensure_data_dir_raises
    /\ cb.generated < MaxGenerations
    /\ LET settings == load_settings
           n == cb.generated + 1
       IN \E dest_override \in {NoneS, "Rome"}, text \in {"ok", "raise"},
             image \in {"url", "none"}, sent \in PhotoKinds \cup {"text"} :
            /\ (image = "none" => sent = "text")
            /\ IF ~env.OPENAI_API_KEY \/ text = "raise"
               THEN UNCHANGED <<preview_cache, cb>>
               ELSE /\ preview_cache' =
                         (PreviewChat :>
                            [post_text |-> Generated("preview", n),
                             image_url |-> IF image = "url" THEN Generated("preview", n)
                                           ELSE NoImage,
                             destination |-> OrS(dest_override,
                                                 OrS(settings.destination, "Stambul")),
                             rubric |-> OrS(settings.rubric, "TIPS"),
                             tone |-> OrS(settings.tone, "FRIENDLY")]) @@ preview_cache
                    /\ cb' = [message |-> sent, generated |-> n,
                              pressed |-> "none", outcome |-> "none"]
    /\ UNCHANGED <<env, settingsFile, postLog, today, delivered, runs, pc, loc, rr,
                   defaultSchedule, scheduler, sc, rp, store, fired>>

\* int(settings.get("target_chat_id") or chat_id)
TargetOrChat(settings) ==
    IF Truthy(settings.target_chat_id) THEN settings.target_chat_id ELSE IntV(PreviewChat)

\* the button "Опубликовать сейчас" of the preview message is pressed
PublishNow ==
    /\ IF Cached = EmptyDict
       THEN /\ cb' = [cb EXCEPT !.pressed = "PUBLISH_NOW",
                                !.outcome = IF EditCaption(cb.message) = "edited"
                                            THEN "stale_shown" ELSE "raised"]
            /\ UNCHANGED <<runs, pc, loc>>
       ELSE /\ Exclusive
            /\ ~ensure_data_dir_raises
            /\ runs < MaxRuns
            /\ runs' = runs + 1
            /\ cb' = [cb EXCEPT !.pressed = "PUBLISH_NOW", !.outcome = "running"]
            /\ IF CanInt(TargetOrChat(load_settings))
               THEN Call("manual", IntOf(TargetOrChat(load_settings)), load_settings,
                         Cached.destination)
               ELSE /\ pc' = [pc EXCEPT !["manual"] = "raised"]
                    /\ UNCHANGED loc
    /\ UNCHANGED preview_cache

\* "Перегенерировать текст": the cached text is replaced, then the caption
\* is edited; without a cached preview the handler does nothing
RegenText ==
    /\ Cached # EmptyDict => cb.generated < MaxGenerations
    /\ IF Cached = EmptyDict
       THEN /\ cb' = [cb EXCEPT !.pressed = "REGEN_TEXT", !.outcome = "ignored"]
            /\ UNCHANGED preview_cache
       ELSE \E text \in {"ok", "raise"} :
              /\ preview_cache' =
                    IF text = "ok"
                    THEN [preview_cache EXCEPT ![PreviewChat].post_text =
                                                   Generated("preview", cb.generated + 1)]
                    ELSE preview_cache
              /\ \E kept \in PhotoKinds :
                    cb' = [cb EXCEPT !.pressed = "REGEN_TEXT",
                                     !.generated = @ + 1,
                                     !.outcome = EditCaption(cb.message),
                                     !.message = IF cb.message \in PhotoKinds
                                                    /\ EditCaption(cb.message) = "edited"
                                                 THEN kept ELSE @]
    /\ UNCHANGED <<runs, pc, loc>>

\* "Перегенерировать картинку": with a new image the preview message is
\* deleted and sent again as a photo
RegenImage ==
    /\ Cached # EmptyDict => cb.generated < MaxGenerations
    /\ IF Cached = EmptyDict
       THEN /\ cb' = [cb EXCEPT !.pressed = "REGEN_IMAGE", !.outcome = "ignored"]
            /\ UNCHANGED preview_cache
       ELSE \E image \in {"url", "none"}, sent \in PhotoKinds :
              IF image = "url"
              THEN /\ preview_cache' =
                         [preview_cache EXCEPT ![PreviewChat].image_url =
                                                   Generated("preview", cb.generated + 1)]
                   /\ cb' = [cb EXCEPT !.pressed = "REGEN_IMAGE", !.generated = @ + 1,
                                       !.outcome = "resent", !.message = sent]
              ELSE /\ cb' = [cb EXCEPT !.pressed = "REGEN_IMAGE", !.generated = @ + 1,
                                       !.outcome = "alert"]
                   /\ UNCHANGED preview_cache
    /\ UNCHANGED <<runs, pc, loc>>

\* callback_buttons: a button of the preview message in the chat is pressed
callback_buttons(data) ==
    /\ pc["manual"] = "idle"
    /\ cb.message # "none"
    /\ CASE data = "PUBLISH_NOW" -> PublishNow
         [] data = "REGEN_TEXT" -> RegenText
         [] data = "REGEN_IMAGE" -> RegenImage
    /\ UNCHANGED <<env, settingsFile, postLog, today, delivered, rr,
                   defaultSchedule, scheduler, sc, rp, store, fired>>

\* the run started by PUBLISH_NOW returned: the verdict is appended to the
\* caption of the preview message
PublishNowEnd ==
    /\ pc["manual"] = "returned"
    /\ pc' = [pc EXCEPT !["manual"] = "idle"]
    /\ loc' = [loc EXCEPT !["manual"] = InitLoc]
    /\ \E kept \in PhotoKinds :
          cb' = [cb EXCEPT !.outcome = IF EditCaption(cb.message) = "edited"
                                       THEN IF loc["manual"].result.ok THEN "published"
                                            ELSE "failed"
                                       ELSE "raised",
                           !.message = IF EditCaption(cb.message) = "edited"
                                       THEN kept ELSE @]
    /\ UNCHANGED <<env, settingsFile, postLog, today, delivered, runs, rr,
                   defaultSchedule, scheduler, sc, rp, store, preview_cache, fired>>

\* /set_rubric <CODE> with a known code
cmd_set_rubric(code) ==
    /\ pc["manual"] = "idle"
    /\ ~ensure_data_dir_raises
    /\ settingsFile' = save_settings(SetKey(load_settings, "rubric", code))
    /\ UNCHANGED <<env, postLog, today, delivered, runs, pc, loc, rr, schedVars>>

\* the bot process is started again: the module is loaded with an empty
\* preview_cache, the preview messages stay in the chat
Restart ==
    /\ Exclusive
    /\ preview_cache # EmptyDict
    /\ preview_cache' = EmptyDict
    /\ UNCHANGED <<env, settingsFile, postLog, today, delivered, runs, pc, loc, rr,
                   defaultSchedule, scheduler, sc, rp, store, cb, fired>>

InitPreview ==
    /\ env = [OPENAI_API_KEY |-> TRUE, TELEGRAM_CHAT_ID |-> None, VK |-> FALSE]
    /\ settingsFile \in {[exists |-> FALSE, data |-> EmptyDict],
                         [exists |-> TRUE, data |-> ("target_chat_id" :> IntV(100))
                                                    @@ ("tone" :> "EXPERT")]}
    /\ postLog = <<>>
    /\ today = FirstDay
    /\ delivered = 0
    /\ runs = 0
    /\ pc = [p \in Procs |-> "idle"]
    /\ loc = [p \in Procs |-> InitLoc]
    /\ rr = RubricIdle
    /\ SchedIdle

NextPreview ==
    \/ cmd_generate
    \/ \E data \in {"PUBLISH_NOW", "REGEN_TEXT", "REGEN_IMAGE"} : callback_buttons(data)
    \/ PublishNowEnd
    \/ \E code \in {"FOOD"} : cmd_set_rubric(code)
    \/ cmd_set_target
    \/ Restart
    \/ scheduled_job_standalone
    \/ SchedEnd
    \/ \E p \in Procs : RunBegin(p)
    \/ \E p \in Procs : GenText(p)
    \/ \E p \in Procs : GenImage(p)
    \/ \E p \in Procs : TierUrl(p)
    \/ \E p \in Procs : TierAttach(p)
    \/ \E p \in Procs : TierText(p)
    \/ \E p \in Procs : AppendLog(p)
    \/ \E p \in Procs : Crosspost(p)
    \/ \E p \in Procs : Finish(p)

SpecPreview == InitPreview /\ [][NextPreview]_vars

-----------------------------------------------------------------------------
(* Properties of the publish pipeline *)

Tiers == <<"url", "attach", "text">>

\* positions of the log entries appended by the run p is executing
RunEntries(p) == {i \in DOMAIN postLog : postLog[i].run = loc[p].runId}

\* some tier of the run handed back a message id
GotMessageId(p) ==
    \E i \in DOMAIN loc[p].attempts :
        loc[p].attempts[i].sent /\ loc[p].attempts[i].mid # None

\* C1: the delivery attempts of a run are a prefix of (URL, attachment,
\* text-only) when an image is present and of (text-only) otherwise; every
\* attempt but the last one failed, a run that ends after a failed attempt
\* ended on text-only, and a text-only attempt that hands back a message id
\* makes the run return ok=true with that id.
C1_FallbackOrder ==
    \A p \in Procs :
        LET a == loc[p].attempts
            n == Len(loc[p].attempts)
        IN /\ n <= 3
           /\ loc[p].has_image => \A i \in 1..n : a[i].tier = Tiers[i]
           /\ ~loc[p].has_image => n <= 1 /\ \A i \in 1..n : a[i].tier = "text"
           /\ \A i \in 1..(n - 1) : ~a[i].sent
           /\ (pc[p] = "returned" /\ n > 0 /\ ~a[n].sent) => a[n].tier = "text"
           /\ (pc[p] = "returned" /\ n > 0 /\ a[n].tier = "text"
                  /\ a[n].sent /\ a[n].mid # None)
                 => /\ loc[p].result.ok
                    /\ loc[p].result.tg_message_id = a[n].mid

\* a run with an image whose URL and attachment tiers failed and whose
\* text-only tier delivered
C1_Witness ==
    \E p \in Procs :
        /\ pc[p] = "returned"
        /\ loc[p].has_image
        /\ Len(loc[p].attempts) = 3
        /\ loc[p].attempts[3].sent
        /\ loc[p].result.ok
        /\ loc[p].result.tg_message_id # None

\* C2: a run that returns ok=true has a tier that succeeded and returns the
\* non-null message id of that tier; a run none of whose attempted tiers
\* handed back a message id returns ok=false.
C2_OkMeansDelivered ==
    \A p \in Procs :
        pc[p] = "returned" =>
            /\ loc[p].result.ok =>
                  \E i \in DOMAIN loc[p].attempts :
                      /\ loc[p].attempts[i].sent
                      /\ loc[p].attempts[i].mid # None
                      /\ loc[p].result.tg_message_id = loc[p].attempts[i].mid
            /\ (loc[p].attempts # <<>> /\ ~GotMessageId(p)) => ~loc[p].result.ok

\* C3: a run appends a log entry exactly when it obtained a primary message
\* id, and then one entry, carrying that id, the run's channel, rubric,
\* destination and tone and replies_count 0 (its secondary post id is null
\* until the mirror step of the same run fills it in).
C3_LogIffMessageId ==
    \A p \in Procs :
        pc[p] = "returned" =>
            /\ (RunEntries(p) # {}) <=> (loc[p].result.tg_message_id # None)
            /\ Cardinality(RunEntries(p)) <= 1
            /\ \A i \in RunEntries(p) :
                  /\ postLog[i].tg_message_id = loc[p].result.tg_message_id
                  /\ postLog[i].chat_id = IntOf(loc[p].target)
                  /\ postLog[i].rubric = loc[p].rubric
                  /\ postLog[i].destination = loc[p].dest
                  /\ postLog[i].tone = loc[p].tone
                  /\ postLog[i].vk_post_id \in {None, loc[p].result.vk_post_id}
                  /\ postLog[i].replies_count = 0

\* C4: a run whose primary delivery handed back a message id returns
\* ok=true whatever happened to the image and the mirror; when the mirror
\* fails the secondary post id is null in the result and in the run's entry.
C4_SecondaryFailuresNonFatal ==
    \A p \in Procs :
        pc[p] = "returned" =>
            /\ GotMessageId(p) => loc[p].result.ok
            /\ loc[p].mirror \in {"failed", "noid"} =>
                  /\ loc[p].result.vk_post_id = None
                  /\ \A i \in RunEntries(p) : postLog[i].vk_post_id = None

\* image generation failed, the mirror failed and the run is ok
C4_Witness ==
    \E p \in Procs :
        /\ pc[p] = "returned"
        /\ loc[p].image = "failed"
        /\ loc[p].mirror = "failed"
        /\ GotMessageId(p)
        /\ loc[p].result.ok
        /\ RunEntries(p) # {}

\* the run p is in has hit one of the three abort conditions
AbortsBeforeDelivery(p) ==
    /\ pc[p] \notin {"idle", "run_begin", "raised"}
    /\ \/ ~Truthy(loc[p].settings.target_chat_id)
       \/ ~env.OPENAI_API_KEY
       \/ loc[p].text = "failed"

\* C5: a run without target channel, without the generative credential or
\* whose text generation failed has returned ok=false with an error, without
\* any delivery or mirror attempt, log entry or change of the stored last_used.
C5_AbortBeforeDelivery ==
    \A p \in Procs :
        AbortsBeforeDelivery(p) =>
            /\ pc[p] = "returned"
            /\ ~loc[p].result.ok
            /\ loc[p].result.error # NoneS
            /\ loc[p].attempts = <<>>
            /\ loc[p].mirror = "none"
            /\ RunEntries(p) = {}
            /\ postLog = loc[p].logBefore
            /\ load_settings.last_used = loc[p].lastUsedBefore

\* a run ended by a failed text generation
C5_Witness ==
    \E p \in Procs :
        /\ pc[p] = "returned"
        /\ loc[p].text = "failed"
        /\ ~loc[p].result.ok

\* C6: a run that was passed a channel by its caller does not fail with the
\* missing-target configuration error.
C6_PassedChannelResolvable ==
    \A p \in Procs :
        (pc[p] = "returned" /\ Truthy(loc[p].chat_id)) =>
            loc[p].result.error # ErrNoTarget

\* C7: in every returned result error is non-null exactly when ok is false.
C7_ErrorIffNotOk ==
    \A p \in Procs :
        pc[p] = "returned" => ((loc[p].result.error # NoneS) <=> ~loc[p].result.ok)

\* a run that failed in delivery, after its text was generated
C7_Witness ==
    \E p \in Procs :
        /\ pc[p] = "returned"
        /\ loc[p].text = "ok"
        /\ loc[p].attempts # <<>>
        /\ ~loc[p].result.ok
        /\ loc[p].result.error # NoneS

\* C8: after an ok run the stored last_used is the run's rubric and
\* destination with the date of the day it finished; after a failed run it
\* is what it was before the run.
C8_LastUsed ==
    \A p \in Procs :
        pc[p] = "returned" =>
            /\ loc[p].result.ok =>
                  load_settings.last_used =
                      [nonempty |-> TRUE, rubric |-> loc[p].rubric,
                       destination |-> loc[p].dest, date |-> DateStr(loc[p].doneDay)]
            /\ ~loc[p].result.ok => load_settings.last_used = loc[p].lastUsedBefore

\* an ok run that changed the stored last_used
C8_Witness ==
    \E p \in Procs :
        /\ pc[p] = "returned"
        /\ loc[p].result.ok
        /\ loc[p].lastUsedBefore.date # None
        /\ load_settings.last_used # loc[p].lastUsedBefore

\* C9: when the mirror succeeds the returned secondary post id is non-null,
\* the run's own entry holds it, and every other entry keeps the secondary
\* post id it had before the run, which is a different one.
C9_MirrorIdOnOwnEntry ==
    \A p \in Procs :
        (pc[p] = "returned" /\ loc[p].mirror = "ok") =>
            /\ loc[p].result.vk_post_id # None
            /\ Cardinality(RunEntries(p)) = 1
            /\ \A i \in DOMAIN postLog :
                  IF i \in RunEntries(p)
                  THEN postLog[i].vk_post_id = loc[p].result.vk_post_id
                  ELSE /\ i <= Len(loc[p].logBefore)
                       /\ postLog[i].vk_post_id = loc[p].logBefore[i].vk_post_id
                       /\ postLog[i].vk_post_id # loc[p].result.vk_post_id

\* a mirrored run that found an earlier entry in the log
C9_Witness ==
    \E p \in Procs :
        /\ pc[p] = "returned"
        /\ loc[p].mirror = "ok"
        /\ loc[p].logBefore # <<>>
        /\ postLog[Len(postLog)].vk_post_id = loc[p].result.vk_post_id

-----------------------------------------------------------------------------
(* Properties of the rotator *)

TableEntries == {WEEKDAY_RUBRIC[i] : i \in 1..7}

PlanEntries(content_plan) == {content_plan[k] : k \in DOMAIN content_plan}

\* C10 as stated: the result is a defined code that is an entry of the
\* default table or of the content plan.
C10_TableOrPlanEntry ==
    rr.done =>
        /\ rr.result # NoneS
        /\ rr.result \in TableEntries \cup PlanEntries(rr.content_plan)

\* C10 amended: the result is a defined code that is an entry of the default
\* table, the trimmed upper-cased form of an entry of the content plan, or
\* the seasonal fallback SEASON.
C10_TablePlanOrSeason ==
    rr.done =>
        /\ rr.result # NoneS
        /\ rr.result \in TableEntries
                         \cup {UpperS(StripS(e)) : e \in PlanEntries(rr.content_plan)}
                         \cup {"SEASON"}

\* a plan entry in lower case with blanks was resolved
C10_Witness ==
    /\ rr.done
    /\ rr.content_plan = PlanSunday
    /\ rr.weekday = 6
    /\ rr.result \in {"CHECKLIST", "SEASON"}

\* the code the weekday resolves to before any substitution, as the claims
\* state it: the plan's entry when one is defined and non-empty
ClaimedTable ==
    <<"TIPS", "ROUTE_1DAY", "FOOD", "FACT_DAY", "WEEKEND", "ROUTE_3DAYS", "CHECKLIST">>

HasPlanEntry ==
    /\ StrV(rr.weekday) \in DOMAIN rr.content_plan
    /\ rr.content_plan[StrV(rr.weekday)] \notin {NoneS, ""}

\* last_used.date names the current day
UsedToday ==
    /\ rr.last_used.nonempty
    /\ rr.last_used.date \in {DateStr(today), DateTimeStr(today)}

\* C11: when the code resolved for the weekday (plan or table) is CHECKLIST
\* and last_used.date is today's date, the result is SEASON.
C11_ChecklistAntiRepeat ==
    (rr.done /\ UsedToday
        /\ (IF HasPlanEntry
            THEN UpperS(StripS(rr.content_plan[StrV(rr.weekday)]))
            ELSE ClaimedTable[rr.weekday + 1]) = "CHECKLIST")
      => rr.result = "SEASON"

\* Sunday from the default table, last used earlier today with a time of day
C11_Witness ==
    /\ rr.done
    /\ rr.weekday = 6
    /\ rr.content_plan = EmptyDict
    /\ rr.last_used.date = DateTimeStr(today)
    /\ rr.result = "SEASON"

\* the substitution applied to a resolved code
ClaimedSwap(r) == IF r = "CHECKLIST" /\ UsedToday THEN "SEASON" ELSE r

\* C12 as stated: the result is the plan's entry for the weekday when the
\* plan defines a non-empty one, else the table's entry, changed only by the
\* checklist-to-seasonal substitution.
C12_PlanEntryElseTable ==
    rr.done =>
        rr.result = ClaimedSwap(IF HasPlanEntry
                                THEN rr.content_plan[StrV(rr.weekday)]
                                ELSE ClaimedTable[rr.weekday + 1])

\* C12 amended: the plan's entry is used trimmed and upper-cased.
C12_NormalisedPlanEntryElseTable ==
    rr.done =>
        rr.result = ClaimedSwap(IF HasPlanEntry
                                THEN UpperS(StripS(rr.content_plan[StrV(rr.weekday)]))
                                ELSE ClaimedTable[rr.weekday + 1])

\* a weekday without plan entry resolved from the table
C12_Witness ==
    /\ rr.done
    /\ rr.weekday = 3
    /\ rr.content_plan = PlanSunday
    /\ rr.result = "FACT_DAY"

-----------------------------------------------------------------------------
(* Properties of the scheduled firing *)

\* a step of scheduled_job_standalone that goes on to publish
FiringStarts == pc["sched"] = "idle" /\ pc'["sched"] = "run_begin"

\* C13: the rubric a firing selects and persists differs from the stored
\* last_used.rubric: it is the rotator's result, replaced by TIPS (by FOOD
\* when the result is TIPS) when that equals last_used.rubric.
C13_RubricDiffersFromLast ==
    [][FiringStarts =>
         LET last == load_settings.last_used
             r == get_rubric_for_weekday(WeekdayOf(today), last,
                      Get(load_settings, "content_plan", EmptyDict), today)
             chosen == IF r = last.rubric
                       THEN (IF r = "TIPS" THEN "FOOD" ELSE "TIPS")
                       ELSE r
         IN /\ loc'["sched"].settings.rubric = chosen
            /\ settingsFile'.data.rubric = chosen
            /\ chosen # last.rubric]_vars

\* a firing whose rotator result repeated the last rubric
C13_Witness ==
    /\ pc["sched"] = "run_begin"
    /\ loc["sched"].lastUsedBefore.rubric = "ROUTE_3DAYS"
    /\ WeekdayOf(today) = 5
    /\ loc["sched"].settings.rubric = "TIPS"

\* text that leaves no destination: None, "" or blanks
NoDestination(settings) == StripS(settings.destination) \in {NoneS, ""}

\* C19: a firing that finds no configured destination publishes with one of
\* the pool and leaves the stored destination unconfigured.
C19_DrawnDestinationNotPinned ==
    [][(FiringStarts /\ NoDestination(load_settings)) =>
          /\ loc'["sched"].settings.destination \in DEFAULT_DESTINATIONS
          /\ settingsFile'.exists
          /\ StripS(settingsFile'.data.destination) \in {NoneS, ""}]_vars

-----------------------------------------------------------------------------
(* Properties of the schedule resolver *)

\* the last setup_scheduler call ran with scheduling enabled and a target
CompileRequested == sc.outcome # "none" /\ ~SchedulingOff(sc.settings)

\* the schedule.time text the last call read ("" when the key is absent)
TimeRead == Get(ScheduleOf(sc.settings), "time", <<>>)

\* t is digits, one of ":" and ".", digits, with an hour of 0..23 and a
\* minute of 0..59
WellFormedTime(t) ==
    \E i \in 2..(Len(t) - 1) :
        /\ t[i] \in {":", "."}
        /\ CanIntC(SubSeq(t, 1, i - 1)) /\ i - 1 <= 2
        /\ CanIntC(SubSeq(t, i + 1, Len(t))) /\ Len(t) - i <= 2
        /\ IntOfC(SubSeq(t, 1, i - 1)) \in 0..23
        /\ IntOfC(SubSeq(t, i + 1, Len(t))) \in 0..59

\* hour and minute the claim assigns to a schedule.time text
ClaimedHourMinute(t) ==
    IF WellFormedTime(t)
    THEN LET i == CHOOSE k \in 2..(Len(t) - 1) : t[k] \in {":", "."}
         IN <<IntOfC(SubSeq(t, 1, i - 1)), IntOfC(SubSeq(t, i + 1, Len(t)))>>
    ELSE <<9, 30>>

\* C14: a compile with scheduling enabled and a target never fails because
\* of schedule.time: it installs a trigger at the hour and minute of a
\* well-formed value and at 09:30 for a malformed, out-of-range or empty one.
C14_TimeNeverFailsCompile ==
    CompileRequested =>
        /\ sc.outcome = "installed"
        /\ <<sc.trigger.hour, sc.trigger.minute>> = ClaimedHourMinute(TimeRead)

\* the frequency text the last call read
FrequencyRead == Get(ScheduleOf(sc.settings), "frequency", <<>>)

\* the maximal runs of non-separator characters of s
TokensOf(s) ==
    {SubSeq(s, i, j) : <<i, j>> \in
        {ij \in (1..Len(s)) \X (1..Len(s)) :
            /\ ij[1] <= ij[2]
            /\ \A k \in ij[1]..ij[2] : ~IsSeparator(s[k])
            /\ (ij[1] = 1 \/ IsSeparator(s[ij[1] - 1]))
            /\ (ij[2] = Len(s) \/ IsSeparator(s[ij[2] + 1]))}}

WeekdayCodes ==
    (<<"m", "o", "n">> :> 0) @@ (<<"t", "u", "e">> :> 1) @@ (<<"w", "e", "d">> :> 2) @@
    (<<"t", "h", "u">> :> 3) @@ (<<"f", "r", "i">> :> 4) @@ (<<"s", "a", "t">> :> 5) @@
    (<<"s", "u", "n">> :> 6)

\* the weekdays the claim assigns to a frequency text; 0..6 is every day
ClaimedDays(f) ==
    IF StripC(LowerC(f)) = Daily THEN 0..6
    ELSE LET named == {WeekdayCodes[t] : t \in TokensOf(LowerC(f)) \cap DOMAIN WeekdayCodes}
         IN IF named = {} THEN {0, 2, 4} ELSE named

\* the weekdays a trigger fires on
FiringDays(trigger) ==
    IF trigger.every_day THEN 0..6
    ELSE {trigger.days[i] : i \in 1..Len(trigger.days)}

\* a frequency text was stored under schedule.frequency
FrequencyStored == "frequency" \in DOMAIN ScheduleOf(sc.settings)

\* C15 as stated: for every frequency string the installed trigger is the
\* every-day trigger for "daily" and else fires on the recognised weekday
\* codes among the tokens, or on mon, wed, fri when none is recognised.
C15_FrequencyDays ==
    (sc.outcome = "installed" /\ FrequencyStored) =>
        /\ FiringDays(sc.trigger) = ClaimedDays(FrequencyRead)
        /\ sc.trigger.every_day <=> StripC(LowerC(FrequencyRead)) = Daily

\* C15 amended: the same for every non-empty frequency string; the empty
\* string yields the every-day trigger.
C15_NonEmptyFrequencyDays ==
    (sc.outcome = "installed" /\ FrequencyStored) =>
        IF FrequencyRead = <<>>
        THEN sc.trigger.every_day
        ELSE /\ FiringDays(sc.trigger) = ClaimedDays(FrequencyRead)
             /\ sc.trigger.every_day <=> StripC(LowerC(FrequencyRead)) = Daily

\* "mon, FRI" compiled to Monday and Friday at 9:05
C15_Witness ==
    /\ sc.outcome = "installed"
    /\ FrequencyRead = F_mon_FRI
    /\ sc.trigger.days = <<0, 4>>
    /\ sc.trigger.hour = 9 /\ sc.trigger.minute = 5

\* the triggers active for the publish job: the scheduler is started when
\* it is created, so every job it holds is active
ActiveTriggers == scheduler.jobs

\* C16: at most one trigger is active, and after a call that installed a
\* trigger the active one is the trigger that call compiled.
C16_OneActiveTrigger ==
    /\ Len(ActiveTriggers) <= 1
    /\ sc.outcome = "installed" =>
           ActiveTriggers = <<[id |-> JobId, trigger |-> sc.trigger]>>

\* a second install replaced a trigger with different days
C16_Witness ==
    /\ sc.outcome = "installed"
    /\ FrequencyRead = F_xx_yy
    /\ TimeRead = T_9_5
    /\ Len(ActiveTriggers) = 1
    /\ ActiveTriggers[1].trigger.days = <<0, 2, 4>>

\* no target channel is configured: neither in settings nor a numeric
\* TELEGRAM_CHAT_ID in the environment
NoTargetConfigured(settings) ==
    /\ settings.target_chat_id \in {None, IntV(0)}
    /\ env.TELEGRAM_CHAT_ID \notin {StrV(200)}

ScheduleDisabled(settings) ==
    ~("schedule" \in DOMAIN settings
      /\ "enabled" \in DOMAIN settings.schedule
      /\ settings.schedule.enabled)

\* C17: after a compile call made while scheduling is disabled or no target
\* is configured, no trigger is active.
C17_DisabledMeansNoTrigger ==
    [][(sc'.outcome \in {"installed", "disabled", "raised"} /\ sc' # sc
        /\ (ScheduleDisabled(sc'.settings) \/ NoTargetConfigured(sc'.settings)))
       => ActiveTriggers' = <<>>]_vars

\* an installed trigger was torn down by a later call that found no target
C17_Witness ==
    /\ sc.outcome = "disabled"
    /\ scheduler.created
    /\ NoTargetConfigured(sc.settings)
    /\ ~ScheduleDisabled(sc.settings)
    /\ ActiveTriggers = <<>>

\* C20: loading a persisted record returns every field that has a default,
\* a missing field with its default value and a persisted field unchanged.
C20_LoadBackfillsDefaults ==
    settingsFile.exists =>
        /\ DOMAIN DEFAULT_SETTINGS \subseteq DOMAIN load_settings
        /\ \A k \in DOMAIN DEFAULT_SETTINGS \ DOMAIN settingsFile.data :
               load_settings[k] = DEFAULT_SETTINGS[k]
        /\ \A k \in DOMAIN settingsFile.data :
               load_settings[k] = settingsFile.data[k]

-----------------------------------------------------------------------------
(* Properties of reply counting *)

\* positions of the entries a reply event is about
MatchingEntries(log, event) ==
    {i \in 1..Len(log) :
        log[i].chat_id = event.chat_id /\ log[i].tg_message_id = event.message_id}

\* the event is a reply that counts: to a message not sent by another bot
CountedReply(event) ==
    /\ event.has_reply_to
    /\ event.chat_id # None /\ event.message_id # None
    /\ event.from_user # "other_bot"

\* the most recently appended of a non-empty set of positions
MostRecent(positions) == CHOOSE i \in positions : \A j \in positions : j <= i

-----------------------------------------------------------------------------
(* Properties of sequences of scheduled firings *)

\* C23: a firing never selects the rubric the previous firing selected,
\* whatever the outcome of the previous firing's run.
C23_ConsecutiveFiringsDiffer ==
    [][(FiringStarts /\ fired.last # NoneS) => fired'.last # fired.last]_vars

\* the phase of the scheduled firing; RESOLVING_CONTEXT is the step from
\* IDLE that loads the settings, chooses destination and rubric and saves
FiringPhase(at) ==
    CASE at = "idle" -> "IDLE"
      [] at = "returned" -> "ENDED"
      [] at = "raised" -> "RAISED"
      [] OTHER -> "PUBLISHING"

\* C26: a firing with a target goes from IDLE through the resolution of its
\* context to PUBLISHING and ends SUCCEEDED or FAILED without raising; the
\* error notification is attempted once when it ended FAILED and not at all
\* when it ended SUCCEEDED, and a failed notification only ends the firing.
C26_FiringStateMachine ==
    [][/\ FiringPhase(pc'["sched"]) # "RAISED"
       /\ FiringPhase(pc'["sched"]) # FiringPhase(pc["sched"]) =>
             <<FiringPhase(pc["sched"]), FiringPhase(pc'["sched"])>> \in
                 {<<"IDLE", "PUBLISHING">>, <<"PUBLISHING", "ENDED">>, <<"ENDED", "IDLE">>}
       /\ FiringStarts =>
             /\ Truthy(SchedChatId(load_settings))
             /\ settingsFile'.data.rubric = loc'["sched"].settings.rubric
             /\ settingsFile'.data.destination = loc'["sched"].settings.destination
       /\ (scheduled_job_standalone /\ Truthy(SchedChatId(load_settings))) => FiringStarts
       /\ pc'["sched"] = "returned" => loc'["sched"].result.ok \in BOOLEAN
       /\ (pc["sched"] = "returned" /\ pc'["sched"] = "idle") =>
             IF loc["sched"].result.ok
             THEN fired'.notified = "none"
             ELSE fired'.notified \in {"sent", "send_raised"}]_vars

\* a firing ended FAILED and its notification could not be sent
C26_Witness ==
    /\ pc["sched"] = "idle"
    /\ fired.last # NoneS
    /\ fired.notified = "send_raised"

\* the scheduled run is between its first generation call and its return
SchedPublishing ==
    pc["sched"] \in {"gen_text", "gen_image", "tier_url", "tier_attach", "tier_text",
                     "append_log", "crosspost", "finish"}

\* the rubric and destination the firing chose are the stored ones and no
\* generation or delivery call of the run has been made
ContextPersistedFirst ==
    pc["sched"] = "run_begin" =>
        /\ settingsFile.exists
        /\ Get(settingsFile.data, "rubric", NoneS) = loc["sched"].settings.rubric
        /\ Get(settingsFile.data, "destination", NoneS) = loc["sched"].settings.destination
        /\ loc["sched"].text = "none" /\ loc["sched"].image = "none"
        /\ loc["sched"].attempts = <<>>

\* C28 as stated: the chosen rubric and destination are persisted before
\* the first generation or delivery call, and the run publishes with exactly
\* the persisted rubric and destination.
C28_PublishesPersistedContext ==
    /\ ContextPersistedFirst
    /\ SchedPublishing =>
           /\ loc["sched"].rubric = loc["sched"].settings.rubric
           /\ loc["sched"].dest = loc["sched"].settings.destination

\* C28 amended: the run publishes with the persisted rubric, TIPS when that
\* is empty, and with the persisted destination without surrounding blanks.
C28_PublishesNormalisedPersistedContext ==
    /\ ContextPersistedFirst
    /\ SchedPublishing =>
           /\ loc["sched"].rubric =
                  (IF loc["sched"].settings.rubric = "" THEN "TIPS"
                   ELSE loc["sched"].settings.rubric)
           /\ loc["sched"].dest = StripS(loc["sched"].settings.destination)

\* a scheduled run publishing with "Rome" for the stored " Rome "
C28_Witness ==
    /\ pc["sched"] = "tier_text"
    /\ settingsFile.data.destination = " Rome "
    /\ loc["sched"].dest = "Rome"
    /\ loc["sched"].rubric = "FOOD"

-----------------------------------------------------------------------------
(* The schedule commands and the scheduler (C27) *)

\* one of /set_schedule, /set_frequency, /set_target completed, after
\* main() has set the scheduler up
ScheduleCommandDone ==
    /\ sc.outcome # "none"
    /\ \/ cmd_set_target
       \/ \E arg \in ScheduleArgs : cmd_set_schedule(arg)
       \/ \E arg \in FrequencyArgs : cmd_set_frequency(arg)

\* the trigger the stored schedule describes
StoredTrigger ==
    LET hm == ParseTime(TimeStr(ScheduleOf(load_settings)))
    IN CronTrigger(Freq(ScheduleOf(load_settings)), hm[1], hm[2])

\* the scheduler agrees with the stored settings: a trigger is active
\* exactly when the schedule is enabled and a target is configured, and it
\* is the trigger of the stored time and days
Reconfigured ==
    /\ (ActiveTriggers # <<>>) <=> ~SchedulingOff(load_settings)
    /\ ActiveTriggers # <<>> =>
           ActiveTriggers = <<[id |-> JobId, trigger |-> StoredTrigger]>>

\* C27: after each of /set_schedule, /set_frequency and /set_target the
\* scheduler has been reconfigured from the stored settings.
C27_CommandsReconfigure ==
    [][ScheduleCommandDone => Reconfigured']_vars

-----------------------------------------------------------------------------
(* The log as a record of what was published (C25) *)

\* an entry without the two fields that may change after it was appended
Frozen(entry) == [entry EXCEPT !.replies_count = 0, !.vk_post_id = None]

\* C25: under runs that do not overlap and reply events the log grows only
\* by appends at its end: no entry is removed or moves, and no field of an
\* existing entry other than replies_count and vk_post_id changes.
C25_LogGrowsByAppends ==
    [][/\ Len(postLog') >= Len(postLog)
       /\ \A i \in 1..Len(postLog) : Frozen(postLog'[i]) = Frozen(postLog[i])]_vars

\* two runs were logged, and the first entry has since been replied to and
\* carries its mirror's post id
C25_Witness ==
    /\ Len(postLog) = 2
    /\ postLog[1].replies_count = 1
    /\ postLog[1].vk_post_id # None
    /\ postLog[2].tg_message_id = IntV(2)
    /\ postLog[2].run = 2

-----------------------------------------------------------------------------
(* Overlapping runs and the log (C24) *)

\* the run has appended its entry and is still known to its caller
Logged(p) == pc[p] \in {"crosspost", "finish", "returned"} /\ RunEntries(p) # {}

\* C24: with a manual and a scheduled run in flight together, the entry
\* holding a run's message id holds that run's rubric, destination and
\* tone, and a mirror's post id is recorded on the entry of the run that
\* produced it, never on the other run's entry.
C24_OverlappingRunsOwnEntries ==
    /\ \A p \in Procs : Logged(p) =>
          \A i \in RunEntries(p) :
              /\ postLog[i].tg_message_id = OrZero(loc[p].result.tg_message_id)
              /\ postLog[i].rubric = loc[p].rubric
              /\ postLog[i].destination = loc[p].dest
              /\ postLog[i].tone = loc[p].tone
    /\ \A i \in DOMAIN postLog :
          postLog[i].vk_post_id # None =>
              postLog[i].vk_post_id = StrOf(IntV(postLog[i].run))

-----------------------------------------------------------------------------
(* Delivery and the reported outcome, for every kind of target (C30) *)

\* the attempts of the run that were answered without an exception
SentAttempts(p) == {i \in DOMAIN loc[p].attempts : loc[p].attempts[i].sent}

-----------------------------------------------------------------------------
(* Store failures (C22) *)

\* C22: when reading or writing the settings or the log fails, no run,
\* firing or reply event raises, and a run whose delivery handed back a
\* message id still returns ok=true with that id.
C22_StoreFailuresSwallowed ==
    /\ \A p \in Procs : pc[p] # "raised"
    /\ rp.event # NoEvent => rp.handled
    /\ \A p \in Procs :
          (pc[p] = "returned" /\ GotMessageId(p)) =>
              /\ loc[p].result.ok
              /\ loc[p].result.tg_message_id # None

-----------------------------------------------------------------------------
(* Previews and their confirmation (C21, C29) *)

\* C21: PUBLISH_NOW pressed in a chat without a cached preview shows the
\* stale-preview note and does nothing else: it does not raise, starts no
\* run and leaves the log and the settings as they were.
C21_StalePreviewSurfaced ==
    [][(callback_buttons("PUBLISH_NOW") /\ Cached = EmptyDict) =>
          /\ cb'.outcome = "stale_shown"
          /\ UNCHANGED <<runs, pc, loc, postLog, settingsFile>>]_vars

\* the text and the image the run delivered: the ones its own generator
\* calls returned
PublishedText(p) == Generated("run", loc[p].runId)

PublishedImage(p) == IF loc[p].has_image THEN Generated("run", loc[p].runId) ELSE NoImage

\* C29: the post a confirmed preview publishes has the text, image, rubric,
\* destination and tone of the bundle cached for the chat.
C29_ConfirmedPreviewPublished ==
    (pc["manual"] = "returned" /\ cb.pressed = "PUBLISH_NOW" /\ loc["manual"].result.ok) =>
        /\ PublishedText("manual") = Cached.post_text
        /\ PublishedImage("manual") = Cached.image_url
        /\ loc["manual"].rubric = Cached.rubric
        /\ loc["manual"].dest = Cached.destination
        /\ loc["manual"].tone = Cached.tone

-----------------------------------------------------------------------------
(* The factory defaults (C31) *)

\* load_settings() finds no settings file or cannot read it
NoRecordRead == ~settingsFile.exists \/ store = "unreadable"

\* C31: a load that finds no persisted record, or an unreadable one,
\* returns the factory defaults (schedule disabled at 09:30 daily, last_used
\* all null), whatever commands and runs were executed before.
C31_DefaultsImmutable ==
    NoRecordRead => load_settings = DEFAULT_SETTINGS

-----------------------------------------------------------------------------
(* The log across store failures (C32) *)

\* the runs whose entries the log file holds
LoggedRuns(log) == {log[i].run : i \in DOMAIN log}

\* C32: a failed read of the log during an append or a reply count loses no
\* entry: every entry the log file held before the step is still in it.
C32_FailedReadKeepsEntries ==
    [][LoggedRuns(postLog) \subseteq LoggedRuns(postLog')]_vars

====
